---- MODULE Spec2Model ----
(***************************************************************************)
(* Model of the crypto trading bot (src/backend): the position tracker     *)
(* (file_manager.get_current_position_from_orders), the signal evaluator   *)
(* (trading_engine), the classifiers (technical_indicators), the execution *)
(* recorder (trading_engine.execute_trade) and the trading loop            *)
(* (trading_bot.main_loop) together with the web routes that share its     *)
(* state (api_routes).                                                     *)
(*                                                                         *)
(* Number representation.  Python floats are modelled by exact integers:   *)
(*   prices            in cents                 (100.00  -> 10000)         *)
(*   stop_loss/profit  in thousandths           (0.02    -> 20)            *)
(*   macd, signal_line in units of 0.0005       (0.001   -> 2)             *)
(*   rsi and the rsi thresholds in whole points (30      -> 30)            *)
(*   trade_size        in thousandths           (0.01    -> 10)            *)
(* Comparisons are therefore exact; binary rounding of the products        *)
(* r * (1 - stop_loss) is not modelled.                                    *)
(* An optional value is a set with at most one element: None is the empty *)
(* set, a present value v is Some(v), and Val unwraps it.                  *)
(***************************************************************************)
EXTENDS Integers, Sequences, FiniteSets, TLC

VARIABLES
    ledger,           \* rows of order.csv, in file order
    historical_data,  \* trading_state.historical_data
    threshold_file,   \* content of threshold.csv
    ending,           \* trading_state.ending
    pc,               \* position of the running operation
    loop_count,       \* main_loop: loop_count
    thresholds,       \* thresholds handed to the evaluator
    market_data,      \* snapshot handed to the evaluator
    read_error,       \* reading order.csv raised during the last evaluation
    signal,           \* label returned by the last evaluation
    should_execute,   \* execute flag returned by the last evaluation
    calls,            \* functions entered by the last evaluation
    position,         \* (current_position, last_trade_price) last derived
    saving,           \* /save-config: configuration being written
    recent_signals,   \* /signals: response being returned
    again,            \* result of a repeated evaluation of the same inputs
    failure,          \* what failed in the running operation, "none" if nothing
    args,             \* arguments of the function that is called on its own
    result,           \* value that function returned
    active_sessions,  \* auth.active_sessions: token -> created_at
    now,              \* time.time(), in units of 12 hours
    issued,           \* tokens create_session has returned
    revoked           \* tokens a verification refused or logout removed

vars == <<ledger, historical_data, threshold_file, ending, pc, loop_count,
          thresholds, market_data, read_error, signal, should_execute,
          calls, position, saving, recent_signals, again, failure,
          args, result, active_sessions, now, issued, revoked>>

\* the session store, its clock and its tokens
sessionVars == <<active_sessions, now, issued, revoked>>

\* the state of the functions called on their own and of the session store
unitVars == <<args, result, sessionVars>>

None == {}

Some(v) == {v}

Val(x) == CHOOSE v \in x : TRUE

-----------------------------------------------------------------------------
(* Scales of the integer representation                                    *)

PerMille == 1000

\* 0.001 in units of 0.0005: the separation threshold of
\* get_macd_trend_strength
MacdSeparation == 2

-----------------------------------------------------------------------------
(* config.py                                                               *)

DEFAULT_THRESHOLDS ==
    [trade_size |-> 10, stop_loss |-> 20, stop_profit |-> 25,
     rsi_buy_threshold |-> 30, rsi_sell_threshold |-> 70,
     macd_buy_threshold |-> 0, macd_sell_threshold |-> 0,
     position_size_usdt |-> 100, active |-> TRUE,
     loop_interval |-> 60, indicator_window |-> 26]

-----------------------------------------------------------------------------
(* file_manager.py: position tracker                                       *)

BuyCount(orders) == Cardinality({i \in DOMAIN orders : orders[i].side = "BUY"})

SellCount(orders) == Cardinality({i \in DOMAIN orders : orders[i].side = "SELL"})

\* mutant: the reference price is taken from the first row
get_current_position_from_orders_first(orders, read_fails) ==
    IF read_fails THEN <<None, None>>
    ELSE IF orders = <<>> THEN <<None, None>>
    ELSE IF BuyCount(orders) > SellCount(orders)
         THEN <<Some("LONG"), Some(orders[1].price)>>
    ELSE IF SellCount(orders) > BuyCount(orders)
         THEN <<Some("SHORT"), Some(orders[1].price)>>
    ELSE <<None, None>>

\* mutant: the side of the last row decides the position
get_current_position_from_orders_lastside(orders, read_fails) ==
    IF read_fails THEN <<None, None>>
    ELSE IF orders = <<>> THEN <<None, None>>
    ELSE IF orders[Len(orders)].side = "BUY"
         THEN <<Some("LONG"), Some(orders[Len(orders)].price)>>
    ELSE <<Some("SHORT"), Some(orders[Len(orders)].price)>>

\* read_fails: open()/csv reading raised; the except branch returns
\* (None, None)
get_current_position_from_orders(orders, read_fails) ==
    IF read_fails THEN <<None, None>>
    ELSE IF orders = <<>> THEN <<None, None>>
    ELSE LET last_order == orders[Len(orders)]
             buy_count  == BuyCount(orders)
             sell_count == SellCount(orders)
         IN  IF buy_count > sell_count
             THEN <<Some("LONG"), Some(last_order.price)>>
             ELSE IF sell_count > buy_count
             THEN <<Some("SHORT"), Some(last_order.price)>>
             ELSE <<None, None>>

-----------------------------------------------------------------------------
(* technical_indicators.py: classifiers                                    *)

Abs(x) == IF x < 0 THEN -x ELSE x

\* a crossover that needs the previous MACD strictly on the other side of
\* its signal line
check_macd_crossover_strictprev(hist, current_macd, current_signal) ==
    IF Len(hist) < 2 \/ current_macd = None \/ current_signal = None
    THEN <<FALSE, FALSE, None>>
    ELSE LET prev_data == hist[Len(hist) - 1]
         IN  IF prev_data.macd = None \/ prev_data.signal_line = None
             THEN <<FALSE, FALSE, None>>
             ELSE LET prev_macd     == Val(prev_data.macd)
                      prev_signal   == Val(prev_data.signal_line)
                      cur_macd      == Val(current_macd)
                      cur_signal    == Val(current_signal)
                      macd_momentum == cur_macd - prev_macd
                      bullish_cross == (prev_macd < prev_signal)
                                       /\ (cur_macd > cur_signal)
                      bearish_cross == (prev_macd > prev_signal)
                                       /\ (cur_macd < cur_signal)
                      crossover_strength ==
                          IF bullish_cross
                          THEN (IF macd_momentum > 0 THEN Some("strong") ELSE Some("weak"))
                          ELSE IF bearish_cross
                          THEN (IF macd_momentum < 0 THEN Some("strong") ELSE Some("weak"))
                          ELSE None
                  IN  <<bullish_cross, bearish_cross, crossover_strength>>

\* returns <<bullish_cross, bearish_cross, crossover_strength>>
check_macd_crossover(hist, current_macd, current_signal) ==
    IF Len(hist) < 2 \/ current_macd = None \/ current_signal = None
    THEN <<FALSE, FALSE, None>>
    ELSE LET prev_data == hist[Len(hist) - 1]
         IN  IF prev_data.macd = None \/ prev_data.signal_line = None
             THEN <<FALSE, FALSE, None>>
             ELSE LET prev_macd     == Val(prev_data.macd)
                      prev_signal   == Val(prev_data.signal_line)
                      cur_macd      == Val(current_macd)
                      cur_signal    == Val(current_signal)
                      macd_momentum == cur_macd - prev_macd
                      bullish_cross == (prev_macd <= prev_signal)
                                       /\ (cur_macd > cur_signal)
                      bearish_cross == (prev_macd >= prev_signal)
                                       /\ (cur_macd < cur_signal)
                      crossover_strength ==
                          IF bullish_cross
                          THEN (IF macd_momentum > 0 THEN Some("strong") ELSE Some("weak"))
                          ELSE IF bearish_cross
                          THEN (IF macd_momentum < 0 THEN Some("strong") ELSE Some("weak"))
                          ELSE None
                  IN  <<bullish_cross, bearish_cross, crossover_strength>>

\* a trend that is strong from a separation of 0.001 on
get_macd_trend_strength_inclusive(current_macd, current_signal) ==
    IF current_macd = None \/ current_signal = None THEN "unknown"
    ELSE LET separation == Abs(Val(current_macd) - Val(current_signal))
         IN  IF Val(current_macd) > Val(current_signal)
             THEN (IF separation >= MacdSeparation
                   THEN "strong_bullish" ELSE "weak_bullish")
             ELSE (IF separation >= MacdSeparation
                   THEN "strong_bearish" ELSE "weak_bearish")

get_macd_trend_strength(current_macd, current_signal) ==
    IF current_macd = None \/ current_signal = None THEN "unknown"
    ELSE LET separation == Abs(Val(current_macd) - Val(current_signal))
         IN  IF Val(current_macd) > Val(current_signal)
             THEN (IF separation > MacdSeparation
                   THEN "strong_bullish" ELSE "weak_bullish")
             ELSE (IF separation > MacdSeparation
                   THEN "strong_bearish" ELSE "weak_bearish")

\* an RSI analysis that tests the neutral zone first
analyze_rsi_condition_neutralfirst(rsi_value, buy_threshold, sell_threshold) ==
    IF rsi_value = None THEN "unknown"
    ELSE LET rsi == Val(rsi_value)
         IN  IF 40 <= rsi /\ rsi <= 60 THEN "neutral"
             ELSE IF rsi <= buy_threshold
             THEN (IF rsi <= buy_threshold - 5
                   THEN "extremely_oversold" ELSE "oversold")
             ELSE IF rsi >= sell_threshold
             THEN (IF rsi >= sell_threshold + 5
                   THEN "extremely_overbought" ELSE "overbought")
             ELSE IF rsi < 40 THEN "approaching_oversold"
             ELSE "approaching_overbought"

analyze_rsi_condition(rsi_value, buy_threshold, sell_threshold) ==
    IF rsi_value = None THEN "unknown"
    ELSE LET rsi == Val(rsi_value)
         IN  IF rsi <= buy_threshold
             THEN (IF rsi <= buy_threshold - 5
                   THEN "extremely_oversold" ELSE "oversold")
             ELSE IF rsi >= sell_threshold
             THEN (IF rsi >= sell_threshold + 5
                   THEN "extremely_overbought" ELSE "overbought")
             ELSE IF 40 <= rsi /\ rsi <= 60 THEN "neutral"
             ELSE IF rsi < 40 THEN "approaching_oversold"
             ELSE "approaching_overbought"

-----------------------------------------------------------------------------
(* trading_engine.py: exit rules                                           *)

\* mutant: the stop-loss comparisons are strict
check_stop_loss_take_profit_strict(current_position, current_price, last_trade_price, th) ==
    IF current_position = "LONG"
    THEN IF current_price * PerMille < last_trade_price * (PerMille - th.stop_loss)
         THEN [signal |-> "SELL_STOP_LOSS", execute |-> TRUE]
         ELSE IF current_price * PerMille >= last_trade_price * (PerMille + th.stop_profit)
         THEN [signal |-> "SELL_TAKE_PROFIT", execute |-> TRUE]
         ELSE [signal |-> "HOLD", execute |-> FALSE]
    ELSE IF current_position = "SHORT"
    THEN IF current_price * PerMille > last_trade_price * (PerMille + th.stop_loss)
         THEN [signal |-> "BUY_STOP_LOSS", execute |-> TRUE]
         ELSE IF current_price * PerMille <= last_trade_price * (PerMille - th.stop_profit)
         THEN [signal |-> "BUY_TAKE_PROFIT", execute |-> TRUE]
         ELSE [signal |-> "HOLD", execute |-> FALSE]
    ELSE [signal |-> "HOLD", execute |-> FALSE]

\* mutant: the SHORT take-profit uses the LONG take-profit bound
check_stop_loss_take_profit_shorttp(current_position, current_price, last_trade_price, th) ==
    IF current_position = "LONG"
    THEN IF current_price * PerMille <= last_trade_price * (PerMille - th.stop_loss)
         THEN [signal |-> "SELL_STOP_LOSS", execute |-> TRUE]
         ELSE IF current_price * PerMille >= last_trade_price * (PerMille + th.stop_profit)
         THEN [signal |-> "SELL_TAKE_PROFIT", execute |-> TRUE]
         ELSE [signal |-> "HOLD", execute |-> FALSE]
    ELSE IF current_position = "SHORT"
    THEN IF current_price * PerMille >= last_trade_price * (PerMille + th.stop_loss)
         THEN [signal |-> "BUY_STOP_LOSS", execute |-> TRUE]
         ELSE IF current_price * PerMille <= last_trade_price * (PerMille - th.stop_loss)
         THEN [signal |-> "BUY_TAKE_PROFIT", execute |-> TRUE]
         ELSE [signal |-> "HOLD", execute |-> FALSE]
    ELSE [signal |-> "HOLD", execute |-> FALSE]

\* exit rules with the take-profit tested before the stop-loss
check_stop_loss_take_profit_profitfirst(current_position, current_price, last_trade_price, th) ==
    IF current_position = "LONG"
    THEN IF current_price * PerMille >= last_trade_price * (PerMille + th.stop_profit)
         THEN [signal |-> "SELL_TAKE_PROFIT", execute |-> TRUE]
         ELSE IF current_price * PerMille <= last_trade_price * (PerMille - th.stop_loss)
         THEN [signal |-> "SELL_STOP_LOSS", execute |-> TRUE]
         ELSE [signal |-> "HOLD", execute |-> FALSE]
    ELSE IF current_position = "SHORT"
    THEN IF current_price * PerMille <= last_trade_price * (PerMille - th.stop_profit)
         THEN [signal |-> "BUY_TAKE_PROFIT", execute |-> TRUE]
         ELSE IF current_price * PerMille >= last_trade_price * (PerMille + th.stop_loss)
         THEN [signal |-> "BUY_STOP_LOSS", execute |-> TRUE]
         ELSE [signal |-> "HOLD", execute |-> FALSE]
    ELSE [signal |-> "HOLD", execute |-> FALSE]

\* current_price <= last_trade_price * (1 - stop_loss), both sides
\* multiplied by PerMille
check_stop_loss_take_profit(current_position, current_price, last_trade_price, th) ==
    IF current_position = "LONG"
    THEN IF current_price * PerMille <= last_trade_price * (PerMille - th.stop_loss)
         THEN [signal |-> "SELL_STOP_LOSS", execute |-> TRUE]
         ELSE IF current_price * PerMille >= last_trade_price * (PerMille + th.stop_profit)
         THEN [signal |-> "SELL_TAKE_PROFIT", execute |-> TRUE]
         ELSE [signal |-> "HOLD", execute |-> FALSE]
    ELSE IF current_position = "SHORT"
    THEN IF current_price * PerMille >= last_trade_price * (PerMille + th.stop_loss)
         THEN [signal |-> "BUY_STOP_LOSS", execute |-> TRUE]
         ELSE IF current_price * PerMille <= last_trade_price * (PerMille - th.stop_profit)
         THEN [signal |-> "BUY_TAKE_PROFIT", execute |-> TRUE]
         ELSE [signal |-> "HOLD", execute |-> FALSE]
    ELSE [signal |-> "HOLD", execute |-> FALSE]

-----------------------------------------------------------------------------
(* trading_engine.py: entry rules                                          *)

\* mutant: rule (b) is dropped, a weak crossover never buys
check_buy_conditions_strongonly(rsi, macd, signal_line, bullish_cross, crossover_strength, macd_trend, rsi_condition, th) ==
    \/ /\ bullish_cross
       /\ crossover_strength = Some("strong")
       /\ rsi_condition \in {"oversold", "extremely_oversold"}
       /\ Val(macd) > th.macd_buy_threshold
    \/ /\ macd_trend = "strong_bullish"
       /\ rsi_condition \in {"oversold", "extremely_oversold"}
       /\ Val(macd) > th.macd_buy_threshold

check_buy_conditions(rsi, macd, signal_line, bullish_cross, crossover_strength, macd_trend, rsi_condition, th) ==
    IF bullish_cross
       /\ (\/ /\ crossover_strength = Some("strong")
              /\ rsi_condition \in {"oversold", "extremely_oversold"}
              /\ Val(macd) > th.macd_buy_threshold
           \/ /\ rsi_condition = "extremely_oversold"
              /\ Val(macd) > th.macd_buy_threshold)
    THEN TRUE
    ELSE /\ macd_trend = "strong_bullish"
         /\ rsi_condition \in {"oversold", "extremely_oversold"}
         /\ Val(macd) > th.macd_buy_threshold

\* mutant: the macd < macd_sell_threshold filter is dropped from the
\* crossover rules
check_sell_conditions_nofilter(rsi, macd, signal_line, bearish_cross, crossover_strength, macd_trend, rsi_condition, th) ==
    IF bearish_cross
       /\ (\/ /\ crossover_strength = Some("strong")
              /\ rsi_condition \in {"overbought", "extremely_overbought"}
           \/ /\ rsi_condition = "extremely_overbought")
    THEN TRUE
    ELSE /\ macd_trend = "strong_bearish"
         /\ rsi_condition \in {"overbought", "extremely_overbought"}
         /\ Val(macd) < th.macd_sell_threshold

\* SELL conditions that read the RSI threshold and the MACD filter only
check_sell_conditions_filtersonly(rsi, macd, signal_line, bearish_cross, crossover_strength, macd_trend, rsi_condition, th) ==
    /\ Val(rsi) >= th.rsi_sell_threshold
    /\ Val(macd) < th.macd_sell_threshold

check_sell_conditions(rsi, macd, signal_line, bearish_cross, crossover_strength, macd_trend, rsi_condition, th) ==
    IF bearish_cross
       /\ (\/ /\ crossover_strength = Some("strong")
              /\ rsi_condition \in {"overbought", "extremely_overbought"}
              /\ Val(macd) < th.macd_sell_threshold
           \/ /\ rsi_condition = "extremely_overbought"
              /\ Val(macd) < th.macd_sell_threshold)
    THEN TRUE
    ELSE /\ macd_trend = "strong_bearish"
         /\ rsi_condition \in {"overbought", "extremely_overbought"}
         /\ Val(macd) < th.macd_sell_threshold

\* the functions check_new_position_signals enters once all three
\* indicators are present
Classifiers == {"check_macd_crossover", "get_macd_trend_strength",
                "analyze_rsi_condition", "check_buy_conditions"}

\* mutant: the indicator-presence test only looks at rsi
check_new_position_signals_rsionly(md, th, hist) ==
    IF Val(md).rsi = None
    THEN [signal |-> "NO_SIGNAL", execute |-> FALSE,
          calls |-> {"check_new_position_signals"}]
    ELSE [signal |-> "HOLD", execute |-> FALSE,
          calls |-> {"check_new_position_signals"} \cup Classifiers
                    \cup {"check_sell_conditions"}]

\* entry rules that report a signal found without a crossover and leave
\* it unexecuted
check_new_position_signals_unconfirmed(md, th, hist) ==
    LET rsi         == Val(md).rsi
        macd        == Val(md).macd
        signal_line == Val(md).signal_line
    IN  IF None \in {rsi, macd, signal_line}
        THEN [signal |-> "NO_SIGNAL", execute |-> FALSE,
              calls |-> {"check_new_position_signals"}]
        ELSE LET cross         == check_macd_crossover(hist, macd, signal_line)
                 macd_trend    == get_macd_trend_strength(macd, signal_line)
                 rsi_condition == analyze_rsi_condition(rsi,
                                      th.rsi_buy_threshold, th.rsi_sell_threshold)
                 buy_signal    == check_buy_conditions(rsi, macd, signal_line,
                                      cross[1], cross[3], macd_trend,
                                      rsi_condition, th)
                 sell_signal   == check_sell_conditions(rsi, macd, signal_line,
                                      cross[2], cross[3], macd_trend,
                                      rsi_condition, th)
             IN  IF buy_signal
                 THEN [signal |-> "BUY_SIGNAL", execute |-> cross[1],
                       calls |-> {"check_new_position_signals"} \cup Classifiers]
                 ELSE IF sell_signal
                 THEN [signal |-> "SELL_SIGNAL", execute |-> cross[2],
                       calls |-> {"check_new_position_signals"} \cup Classifiers
                                 \cup {"check_sell_conditions"}]
                 ELSE [signal |-> "HOLD", execute |-> FALSE,
                       calls |-> {"check_new_position_signals"} \cup Classifiers
                                 \cup {"check_sell_conditions"}]

check_new_position_signals(md, th, hist) ==
    LET rsi         == Val(md).rsi
        macd        == Val(md).macd
        signal_line == Val(md).signal_line
    IN  IF None \in {rsi, macd, signal_line}
        THEN [signal |-> "NO_SIGNAL", execute |-> FALSE,
              calls |-> {"check_new_position_signals"}]
        ELSE LET cross         == check_macd_crossover(hist, macd, signal_line)
                 macd_trend    == get_macd_trend_strength(macd, signal_line)
                 rsi_condition == analyze_rsi_condition(rsi,
                                      th.rsi_buy_threshold, th.rsi_sell_threshold)
                 buy_signal    == check_buy_conditions(rsi, macd, signal_line,
                                      cross[1], cross[3], macd_trend,
                                      rsi_condition, th)
                 sell_signal   == check_sell_conditions(rsi, macd, signal_line,
                                      cross[2], cross[3], macd_trend,
                                      rsi_condition, th)
             IN  IF buy_signal
                 THEN [signal |-> "BUY_SIGNAL", execute |-> TRUE,
                       calls |-> {"check_new_position_signals"} \cup Classifiers]
                 ELSE IF sell_signal
                 THEN [signal |-> "SELL_SIGNAL", execute |-> TRUE,
                       calls |-> {"check_new_position_signals"} \cup Classifiers
                                 \cup {"check_sell_conditions"}]
                 ELSE [signal |-> "HOLD", execute |-> FALSE,
                       calls |-> {"check_new_position_signals"} \cup Classifiers
                                 \cup {"check_sell_conditions"}]

-----------------------------------------------------------------------------
(* trading_engine.py: the evaluator                                        *)

\* Python truth value of "current_position and last_trade_price"
PositionAndPrice(pos) == pos[1] # None /\ pos[2] # None /\ Val(pos[2]) # 0

\* mutant: entry rules are tried before the exit rules
check_trading_signals_with_thresholds_entryfirst(md, th, orders, read_fails, hist) ==
    IF md = None \/ ~th.active
    THEN [signal |-> "NO_SIGNAL", execute |-> FALSE, calls |-> {},
          position |-> <<None, None>>]
    ELSE LET pos   == get_current_position_from_orders(orders, read_fails)
             entry == check_new_position_signals(md, th, hist)
         IN  IF entry.execute
             THEN [signal |-> entry.signal, execute |-> TRUE,
                   calls |-> {"get_current_position_from_orders"} \cup entry.calls,
                   position |-> pos]
             ELSE IF PositionAndPrice(pos)
                     /\ check_stop_loss_take_profit(Val(pos[1]), Val(md).price, Val(pos[2]), th).execute
             THEN [signal |-> check_stop_loss_take_profit(Val(pos[1]), Val(md).price, Val(pos[2]), th).signal,
                   execute |-> TRUE,
                   calls |-> {"get_current_position_from_orders",
                              "check_stop_loss_take_profit"} \cup entry.calls,
                   position |-> pos]
             ELSE [signal |-> IF pos[1] = None THEN entry.signal ELSE "HOLD",
                   execute |-> FALSE,
                   calls |-> {"get_current_position_from_orders"} \cup entry.calls,
                   position |-> pos]

\* mutant: the "active" gate is missing
check_trading_signals_with_thresholds_nogate(md, th, orders, read_fails, hist) ==
    IF md = None
    THEN [signal |-> "NO_SIGNAL", execute |-> FALSE, calls |-> {},
          position |-> <<None, None>>]
    ELSE LET pos == get_current_position_from_orders(orders, read_fails)
         IN  IF PositionAndPrice(pos)
                /\ check_stop_loss_take_profit(Val(pos[1]), Val(md).price, Val(pos[2]), th).execute
             THEN [signal |-> check_stop_loss_take_profit(Val(pos[1]), Val(md).price, Val(pos[2]), th).signal,
                   execute |-> TRUE,
                   calls |-> {"get_current_position_from_orders",
                              "check_stop_loss_take_profit"},
                   position |-> pos]
             ELSE IF pos[1] = None
             THEN LET entry == check_new_position_signals(md, th, hist)
                  IN  [signal |-> entry.signal, execute |-> entry.execute,
                       calls |-> {"get_current_position_from_orders"} \cup entry.calls,
                       position |-> pos]
             ELSE [signal |-> "HOLD", execute |-> FALSE,
                   calls |-> {"get_current_position_from_orders"}
                             \cup (IF PositionAndPrice(pos)
                                   THEN {"check_stop_loss_take_profit"} ELSE {}),
                   position |-> pos]

\* mutant: an open position without exit falls through to the entry rules
check_trading_signals_with_thresholds_fallthrough(md, th, orders, read_fails, hist) ==
    IF md = None \/ ~th.active
    THEN [signal |-> "NO_SIGNAL", execute |-> FALSE, calls |-> {},
          position |-> <<None, None>>]
    ELSE LET pos == get_current_position_from_orders(orders, read_fails)
         IN  IF PositionAndPrice(pos)
                /\ check_stop_loss_take_profit(Val(pos[1]), Val(md).price, Val(pos[2]), th).execute
             THEN [signal |-> check_stop_loss_take_profit(Val(pos[1]), Val(md).price, Val(pos[2]), th).signal,
                   execute |-> TRUE,
                   calls |-> {"get_current_position_from_orders",
                              "check_stop_loss_take_profit"},
                   position |-> pos]
             ELSE LET entry == check_new_position_signals(md, th, hist)
                  IN  [signal |-> entry.signal, execute |-> entry.execute,
                       calls |-> {"get_current_position_from_orders"} \cup entry.calls,
                       position |-> pos]

\* an evaluator that remembers it has answered: after a first result it
\* holds
check_trading_signals_with_thresholds_cooldown(md, th, orders, read_fails, hist) ==
    IF md = None \/ ~th.active
    THEN [signal |-> "NO_SIGNAL", execute |-> FALSE, calls |-> {},
          position |-> <<None, None>>]
    ELSE LET pos == get_current_position_from_orders(orders, read_fails)
         IN  IF signal # None
             THEN [signal |-> "HOLD", execute |-> FALSE,
                   calls |-> {"get_current_position_from_orders"},
                   position |-> pos]
             ELSE IF PositionAndPrice(pos)
                /\ check_stop_loss_take_profit(Val(pos[1]), Val(md).price, Val(pos[2]), th).execute
             THEN [signal |-> check_stop_loss_take_profit(Val(pos[1]), Val(md).price, Val(pos[2]), th).signal,
                   execute |-> TRUE,
                   calls |-> {"get_current_position_from_orders",
                              "check_stop_loss_take_profit"},
                   position |-> pos]
             ELSE IF pos[1] = None
             THEN LET entry == check_new_position_signals(md, th, hist)
                  IN  [signal |-> entry.signal, execute |-> entry.execute,
                       calls |-> {"get_current_position_from_orders"} \cup entry.calls,
                       position |-> pos]
             ELSE [signal |-> "HOLD", execute |-> FALSE,
                   calls |-> {"get_current_position_from_orders"}
                             \cup (IF PositionAndPrice(pos)
                                   THEN {"check_stop_loss_take_profit"} ELSE {}),
                   position |-> pos]

\* an evaluator that waits for the indicators before it looks at exits
check_trading_signals_with_thresholds_indicatorsfirst(md, th, orders, read_fails, hist) ==
    IF md = None \/ ~th.active
    THEN [signal |-> "NO_SIGNAL", execute |-> FALSE, calls |-> {},
          position |-> <<None, None>>]
    ELSE LET pos == get_current_position_from_orders(orders, read_fails)
         IN  IF None \in {Val(md).rsi, Val(md).macd, Val(md).signal_line}
             THEN [signal |-> "NO_SIGNAL", execute |-> FALSE,
                   calls |-> {"get_current_position_from_orders"},
                   position |-> pos]
             ELSE IF PositionAndPrice(pos)
                /\ check_stop_loss_take_profit(Val(pos[1]), Val(md).price, Val(pos[2]), th).execute
             THEN [signal |-> check_stop_loss_take_profit(Val(pos[1]), Val(md).price, Val(pos[2]), th).signal,
                   execute |-> TRUE,
                   calls |-> {"get_current_position_from_orders",
                              "check_stop_loss_take_profit"},
                   position |-> pos]
             ELSE IF pos[1] = None
             THEN LET entry == check_new_position_signals(md, th, hist)
                  IN  [signal |-> entry.signal, execute |-> entry.execute,
                       calls |-> {"get_current_position_from_orders"} \cup entry.calls,
                       position |-> pos]
             ELSE [signal |-> "HOLD", execute |-> FALSE,
                   calls |-> {"get_current_position_from_orders"}
                             \cup (IF PositionAndPrice(pos)
                                   THEN {"check_stop_loss_take_profit"} ELSE {}),
                   position |-> pos]

\* orders, read_fails, hist: what the call reads from order.csv and from
\* trading_state.historical_data.  The result carries the returned pair,
\* the functions entered and the position the call derived.
check_trading_signals_with_thresholds(md, th, orders, read_fails, hist) ==
    IF md = None \/ ~th.active
    THEN [signal |-> "NO_SIGNAL", execute |-> FALSE, calls |-> {},
          position |-> <<None, None>>]
    ELSE LET pos == get_current_position_from_orders(orders, read_fails)
         IN  IF PositionAndPrice(pos)
                /\ check_stop_loss_take_profit(Val(pos[1]), Val(md).price, Val(pos[2]), th).execute
             THEN [signal |-> check_stop_loss_take_profit(Val(pos[1]), Val(md).price, Val(pos[2]), th).signal,
                   execute |-> TRUE,
                   calls |-> {"get_current_position_from_orders",
                              "check_stop_loss_take_profit"},
                   position |-> pos]
             ELSE IF pos[1] = None
             THEN LET entry == check_new_position_signals(md, th, hist)
                  IN  [signal |-> entry.signal, execute |-> entry.execute,
                       calls |-> {"get_current_position_from_orders"} \cup entry.calls,
                       position |-> pos]
             ELSE [signal |-> "HOLD", execute |-> FALSE,
                   calls |-> {"get_current_position_from_orders"}
                             \cup (IF PositionAndPrice(pos)
                                   THEN {"check_stop_loss_take_profit"} ELSE {}),
                   position |-> pos]

-----------------------------------------------------------------------------
(* trading_engine.py: execution recorder                                   *)

\* str.endswith / str.startswith over the labels of the evaluator
EndsWith(s, suffix) ==
    \E pre \in {"", "NO", "BUY", "SELL", "BUY_STOP", "SELL_STOP",
                "BUY_TAKE", "SELL_TAKE", "HOLD"} : s = pre \o suffix

StartsWith(s, prefix) ==
    \E post \in {"", "_SIGNAL", "_STOP_LOSS", "_TAKE_PROFIT"} : s = prefix \o post

\* order.csv opened for writing, which drops the earlier rows
append_order_to_csv_rewrite(orders, order_data, append_fails) ==
    IF append_fails THEN orders ELSE <<order_data>>

\* append_fails: writing order.csv raised; append_order_to_csv logs the
\* error and returns
append_order_to_csv(orders, order_data, append_fails) ==
    IF append_fails THEN orders ELSE Append(orders, order_data)

\* a recorder that sizes the order from position_size_usdt
execute_trade_sized(label, md, th, orders, append_fails) ==
    IF ~(\E suffix \in {"_SIGNAL", "_LOSS", "_PROFIT"} : EndsWith(label, suffix))
    THEN orders
    ELSE LET current_price == Val(md).price
             trade_size    == th.trade_size
             side          == IF StartsWith(label, "BUY") THEN "BUY" ELSE "SELL"
             quantity      == (th.position_size_usdt * 100000) \div current_price
         IN  append_order_to_csv(orders,
                 [side |-> side, price |-> current_price,
                  quantity |-> quantity, trade_size |-> trade_size],
                 append_fails)

\* the ledger after execute_trade(signal, market_data, thresholds)
execute_trade(label, md, th, orders, append_fails) ==
    IF ~(\E suffix \in {"_SIGNAL", "_LOSS", "_PROFIT"} : EndsWith(label, suffix))
    THEN orders
    ELSE LET current_price == Val(md).price
             trade_size    == th.trade_size
             side          == IF StartsWith(label, "BUY") THEN "BUY" ELSE "SELL"
             quantity      == trade_size
         IN  append_order_to_csv(orders,
                 [side |-> side, price |-> current_price,
                  quantity |-> quantity, trade_size |-> trade_size],
                 append_fails)

-----------------------------------------------------------------------------
(* config.py, technical_indicators.py, file_manager.py: history and        *)
(* configuration                                                           *)

CACHE_SIZE == 100

Max(S) == CHOOSE m \in S : \A n \in S : n <= m

\* int(indicator_window * 0.54) and its siblings, as integer floors
get_indicator_periods(indicator_window) ==
    [rsi_window    |-> Max({10, (indicator_window * 54) \div 100}),
     macd_fast     |-> Max({8, (indicator_window * 46) \div 100}),
     macd_slow     |-> indicator_window,
     signal_window |-> Max({6, (indicator_window * 35) \div 100})]

\* indicators taken as soon as the RSI and the signal line have their
\* periods, whatever the slow period
calculate_technical_indicators_fastonly(hist, indicator_window, computed) ==
    LET periods      == get_indicator_periods(indicator_window)
        min_required == Max({periods.rsi_window, periods.signal_window})
    IN  IF Len(hist) < min_required
        THEN <<None, None, None>>
        ELSE computed

\* computed: the triple the ta library computes from the prices when
\* there are enough of them
calculate_technical_indicators(hist, indicator_window, computed) ==
    LET periods      == get_indicator_periods(indicator_window)
        min_required == Max({periods.rsi_window, periods.macd_slow,
                             periods.signal_window})
    IN  IF Len(hist) < min_required
        THEN <<None, None, None>>
        ELSE computed

\* raw: the price fetched; hist: the rolling history
create_market_data_with_indicators(raw, hist, indicator_window, computed) ==
    LET temp_historical_data == Append(hist, [price |-> raw, rsi |-> None,
                                              macd |-> None, signal_line |-> None])
        ind == calculate_technical_indicators(temp_historical_data,
                                              indicator_window, computed)
    IN  [price |-> raw, rsi |-> ind[1], macd |-> ind[2], signal_line |-> ind[3]]

\* safe_float applied to a float or None: "if value and ..." is false for
\* None and for 0.0
safe_float(value) ==
    IF value # None /\ Val(value) # 0 THEN value ELSE None

parse_csv_row(row) ==
    [price |-> row.price, rsi |-> safe_float(row.rsi),
     macd |-> safe_float(row.macd), signal_line |-> safe_float(row.signal_line)]

\* A row of threshold.csv is text.  The text of a numeric field is
\* Some(n) when float() reads the number n from it and None when float()
\* raises ValueError (an empty field, a word).  The text of the active
\* field is kept as a string.  A JSON request carries active as the
\* number 1 or 0 or as the boolean true or false; these tokens are the
\* strings "1", "0", "true", "false".

\* str(value) as csv.writer writes a number
str(value) == Some(value)

\* str(data['active']) as csv.writer writes it: True and False for the
\* booleans
writerow(data) ==
    [trade_size          |-> str(data.trade_size),
     stop_loss           |-> str(data.stop_loss),
     stop_profit         |-> str(data.stop_profit),
     rsi_buy_threshold   |-> str(data.rsi_buy_threshold),
     rsi_sell_threshold  |-> str(data.rsi_sell_threshold),
     macd_buy_threshold  |-> str(data.macd_buy_threshold),
     macd_sell_threshold |-> str(data.macd_sell_threshold),
     position_size_usdt  |-> str(data.position_size_usdt),
     active              |-> CASE data.active = "true"  -> "True"
                               [] data.active = "false" -> "False"
                               [] OTHER                 -> data.active,
     loop_interval       |-> str(data.loop_interval),
     indicator_window    |-> str(data.indicator_window)]

\* the row ensure_threshold_csv_exists or an operator writes for a
\* configuration: active as 1 or 0
ThresholdRow(c) == writerow([c EXCEPT !.active = IF c.active THEN "1" ELSE "0"])

\* the fields load_trading_thresholds reads with float()
NumericFields == {"trade_size", "stop_loss", "stop_profit",
                  "rsi_buy_threshold", "rsi_sell_threshold",
                  "macd_buy_threshold", "macd_sell_threshold",
                  "position_size_usdt", "loop_interval", "indicator_window"}

\* float(text) raises ValueError for one of the numeric fields, or
\* int(float(text)) does for the active field
ParseError(threshold) ==
    \/ \E f \in NumericFields : threshold[f] = None
    \/ threshold.active \notin {"1", "0"}

\* a loader that keeps the fields it could parse and takes the default
\* for the others
load_trading_thresholds_partial(file) ==
    IF file = None
    THEN DEFAULT_THRESHOLDS
    ELSE LET threshold == Val(file)
             parsed(f) == IF threshold[f] = None THEN DEFAULT_THRESHOLDS[f]
                          ELSE Val(threshold[f])
         IN  [trade_size          |-> parsed("trade_size"),
              stop_loss           |-> parsed("stop_loss"),
              stop_profit         |-> parsed("stop_profit"),
              rsi_buy_threshold   |-> parsed("rsi_buy_threshold"),
              rsi_sell_threshold  |-> parsed("rsi_sell_threshold"),
              macd_buy_threshold  |-> parsed("macd_buy_threshold"),
              macd_sell_threshold |-> parsed("macd_sell_threshold"),
              position_size_usdt  |-> parsed("position_size_usdt"),
              active              |-> (threshold.active # "0"),
              loop_interval       |-> parsed("loop_interval"),
              indicator_window    |-> parsed("indicator_window")]

\* a loader that rejects a configuration whose relations are violated
load_trading_thresholds_rejecting(file) ==
    LET config == load_trading_thresholds_partial(file)
    IN  IF file = None \/ ParseError(Val(file)) THEN DEFAULT_THRESHOLDS
        ELSE IF \/ config.rsi_buy_threshold >= config.rsi_sell_threshold
                \/ config.stop_loss >= config.stop_profit
        THEN DEFAULT_THRESHOLDS
        ELSE config

\* file: None when threshold.csv has no data row, else the stored row.
\* A field that does not parse raises ValueError and the except branch
\* returns the defaults; so does bool(int(float(threshold['active']))) on
\* any text that is not a number.
load_trading_thresholds(file) ==
    IF file = None
    THEN DEFAULT_THRESHOLDS
    ELSE LET threshold == Val(file)
         IN  IF ParseError(threshold)
             THEN DEFAULT_THRESHOLDS
             ELSE [trade_size          |-> Val(threshold.trade_size),
                   stop_loss           |-> Val(threshold.stop_loss),
                   stop_profit         |-> Val(threshold.stop_profit),
                   rsi_buy_threshold   |-> Val(threshold.rsi_buy_threshold),
                   rsi_sell_threshold  |-> Val(threshold.rsi_sell_threshold),
                   macd_buy_threshold  |-> Val(threshold.macd_buy_threshold),
                   macd_sell_threshold |-> Val(threshold.macd_sell_threshold),
                   position_size_usdt  |-> Val(threshold.position_size_usdt),
                   active              |-> (threshold.active = "1"),
                   loop_interval       |-> Val(threshold.loop_interval),
                   indicator_window    |-> Val(threshold.indicator_window)]

\* ensure_threshold_csv_exists: a missing file is created with the row of
\* the defaults
ensure_threshold_csv_exists(exists, file) ==
    IF exists THEN file ELSE Some(ThresholdRow(DEFAULT_THRESHOLDS))

\* min, max and recommended range of each parameter, in the units of the
\* model
PARAMETER_RANGES ==
    [trade_size          |-> [min |-> 1,   max |-> 1000,  rec |-> <<10, 100>>],
     stop_loss           |-> [min |-> 5,   max |-> 100,   rec |-> <<10, 50>>],
     stop_profit         |-> [min |-> 5,   max |-> 150,   rec |-> <<15, 50>>],
     rsi_buy_threshold   |-> [min |-> 10,  max |-> 40,    rec |-> <<25, 35>>],
     rsi_sell_threshold  |-> [min |-> 60,  max |-> 90,    rec |-> <<65, 80>>],
     macd_buy_threshold  |-> [min |-> -20, max |-> 20,    rec |-> <<-2, 2>>],
     macd_sell_threshold |-> [min |-> -20, max |-> 20,    rec |-> <<-2, 2>>],
     position_size_usdt  |-> [min |-> 10,  max |-> 10000, rec |-> <<50, 500>>],
     loop_interval       |-> [min |-> 30,  max |-> 300,   rec |-> <<60, 120>>],
     indicator_window    |-> [min |-> 10,  max |-> 50,    rec |-> <<20, 30>>]]

\* the warnings of one parameter; a warning is kept as the parameter name
\* followed by what is wrong
validate_parameter(param_name, value) ==
    LET ranges == PARAMETER_RANGES[param_name]
    IN  (IF value < ranges.min THEN {param_name \o " is below minimum"}
         ELSE IF value > ranges.max THEN {param_name \o " is above maximum"}
         ELSE {})
        \cup
        (IF ranges.min <= value /\ value <= ranges.max
         THEN IF value < ranges.rec[1]
              THEN {param_name \o " is below recommended range"}
              ELSE IF value > ranges.rec[2]
              THEN {param_name \o " is above recommended range"}
              ELSE {}
         ELSE {})

RsiRelationWarning == "RSI buy threshold should be less than sell threshold"

StopRelationWarning == "Stop loss is higher than stop profit - consider adjusting"

\* the warnings as a set: their order in the list is not kept
validate_all_parameters(th) ==
    UNION {validate_parameter(f, th[f]) : f \in NumericFields}
    \cup (IF th.rsi_buy_threshold >= th.rsi_sell_threshold
          THEN {RsiRelationWarning} ELSE {})
    \cup (IF th.stop_loss >= th.stop_profit
          THEN {StopRelationWarning} ELSE {})

\* rows: the data rows of market_data.csv.  The stored rows hold non-zero
\* indicator values, which parse_csv_row keeps.
load_historical_data(rows) ==
    LET data == [i \in 1..Len(rows) |-> parse_csv_row(rows[i])]
    IN  IF Len(data) > CACHE_SIZE
        THEN SubSeq(data, Len(data) - CACHE_SIZE + 1, Len(data))
        ELSE data

-----------------------------------------------------------------------------
(* Inputs of the evaluator and of the position tracker                     *)

\* longest ledger handed to the evaluator
MaxLedger == 2

\* longest ledger handed to the position tracker alone
MaxOrders == 4

\* longest rolling history handed to the evaluator
MaxHist == 2

SeqsUpTo(S, n) == UNION {[1..k -> S] : k \in 0..n}

Order(side, price) ==
    [side |-> side, price |-> price, quantity |-> 10, trade_size |-> 10]

Inactive == [DEFAULT_THRESHOLDS EXCEPT !.active = FALSE]

\* thresholds that validation warns about but accepts: non-positive stops,
\* rsi_buy_threshold >= rsi_sell_threshold, shifted macd thresholds
Unusual == [DEFAULT_THRESHOLDS EXCEPT !.stop_loss = -10, !.stop_profit = -10,
                                     !.rsi_buy_threshold = 70,
                                     !.rsi_sell_threshold = 30,
                                     !.macd_buy_threshold = -1,
                                     !.macd_sell_threshold = 1]

EvalConfigs == {DEFAULT_THRESHOLDS, Inactive, Unusual}

EvalLedgers == SeqsUpTo({Order(sd, 10000) : sd \in {"BUY", "SELL"}}, MaxLedger)

PosLedgers ==
    SeqsUpTo({Order(sd, pr) : sd \in {"BUY", "SELL"}, pr \in {9800, 10000}},
             MaxOrders)

EvalPrices == {9740, 9750, 9760, 9800, 9801, 10000, 10200, 10250}

RsiValues == {None, Some(22), Some(25), Some(28), Some(50), Some(72), Some(75)}

MacdValues == {None, Some(-3), Some(0), Some(4)}

SignalValues == {None, Some(-1), Some(2)}

Snapshot(price, rsi, macd, signal_line) ==
    [price |-> price, rsi |-> rsi, macd |-> macd, signal_line |-> signal_line]

\* every price with a few indicator triples, and one price with every
\* indicator triple
EvalSnapshots ==
    {None}
    \cup {Some(Snapshot(p, t[1], t[2], t[3])) :
              p \in EvalPrices,
              t \in {<<None, None, None>>, <<Some(22), Some(4), Some(-1)>>,
                     <<Some(75), Some(-3), Some(2)>>, <<Some(50), None, Some(2)>>}}
    \cup {Some(Snapshot(10000, r, m, sl)) :
              r \in RsiValues, m \in MacdValues, sl \in SignalValues}

\* observations of the rolling history: without indicators, MACD below,
\* above and on its signal line
HistObs == {Snapshot(10000, None, None, None),
            Snapshot(10000, Some(50), Some(1), Some(3)),
            Snapshot(10000, Some(50), Some(-1), Some(-2)),
            Snapshot(10000, Some(50), Some(2), Some(2))}

EvalHistories == SeqsUpTo(HistObs, MaxHist)

-----------------------------------------------------------------------------
(* SpecEval: one call of check_trading_signals_with_thresholds on inputs   *)
(* drawn from the sets above                                               *)

InitEval ==
    /\ ledger \in EvalLedgers
    /\ historical_data \in EvalHistories
    /\ thresholds \in EvalConfigs
    /\ market_data \in EvalSnapshots
    /\ read_error \in BOOLEAN
    /\ threshold_file = Some(ThresholdRow(DEFAULT_THRESHOLDS))
    /\ ending = FALSE
    /\ pc = "call"
    /\ loop_count = 0
    /\ signal = None
    /\ should_execute = FALSE
    /\ calls = {}
    /\ position = <<None, None>>
    /\ saving = None
    /\ recent_signals = None
    /\ again = None
    /\ args = None
    /\ result = None
    /\ active_sessions = <<>>
    /\ now = 0
    /\ issued = {}
    /\ revoked = <<>>
    /\ failure = "none"

EvalCall ==
    /\ pc = "call"
    /\ LET r == check_trading_signals_with_thresholds(market_data, thresholds,
                     ledger, read_error, historical_data)
       IN  /\ signal' = Some(r.signal)
           /\ should_execute' = r.execute
           /\ calls' = r.calls
           /\ position' = r.position
    /\ pc' = "returned"
    /\ UNCHANGED <<ledger, historical_data, threshold_file, ending, loop_count,
                   thresholds, market_data, read_error, saving, recent_signals,
                   again, unitVars, failure>>

NextEval == EvalCall

SpecEval == InitEval /\ [][NextEval]_vars

-----------------------------------------------------------------------------
(* SpecTwice: two calls of check_trading_signals_with_thresholds with the  *)
(* same snapshot and thresholds, nothing else running between them         *)

\* the second call; its read of order.csv succeeds or raises on its own
EvalAgain ==
    /\ pc = "returned"
    /\ \E read_fails \in BOOLEAN :
          LET r == check_trading_signals_with_thresholds(market_data, thresholds,
                       ledger, read_fails, historical_data)
          IN  again' = Some([signal |-> r.signal, execute |-> r.execute,
                             read_error |-> read_fails])
    /\ pc' = "repeated"
    /\ UNCHANGED <<ledger, historical_data, threshold_file, ending, loop_count,
                   thresholds, market_data, read_error, signal, should_execute,
                   calls, position, saving, recent_signals, failure,
                   unitVars>>

NextTwice ==
    \/ EvalCall
    \/ EvalAgain

SpecTwice == InitEval /\ [][NextTwice]_vars

-----------------------------------------------------------------------------
(* SpecPos: one call of get_current_position_from_orders on a ledger       *)

InitPos ==
    /\ ledger \in PosLedgers
    /\ read_error \in BOOLEAN
    /\ historical_data = <<>>
    /\ thresholds = DEFAULT_THRESHOLDS
    /\ market_data = None
    /\ threshold_file = Some(ThresholdRow(DEFAULT_THRESHOLDS))
    /\ ending = FALSE
    /\ pc = "call"
    /\ loop_count = 0
    /\ signal = None
    /\ should_execute = FALSE
    /\ calls = {}
    /\ position = <<None, None>>
    /\ saving = None
    /\ recent_signals = None
    /\ again = None
    /\ args = None
    /\ result = None
    /\ active_sessions = <<>>
    /\ now = 0
    /\ issued = {}
    /\ revoked = <<>>
    /\ failure = "none"

PosCall ==
    /\ pc = "call"
    /\ position' = get_current_position_from_orders(ledger, read_error)
    /\ calls' = {"get_current_position_from_orders"}
    /\ pc' = "returned"
    /\ UNCHANGED <<ledger, historical_data, threshold_file, ending, loop_count,
                   thresholds, market_data, read_error, signal, should_execute,
                   saving, recent_signals, again, unitVars, failure>>

NextPos == PosCall

SpecPos == InitPos /\ [][NextPos]_vars

-----------------------------------------------------------------------------
(* SpecRec: one call of execute_trade on a label, a snapshot, thresholds   *)
(* and a ledger                                                            *)

\* the labels the evaluator returns
Labels == {"NO_SIGNAL", "HOLD", "BUY_SIGNAL", "SELL_SIGNAL", "BUY_STOP_LOSS",
           "BUY_TAKE_PROFIT", "SELL_STOP_LOSS", "SELL_TAKE_PROFIT"}

\* thresholds with another trade size and another position size
RecConfigs ==
    {DEFAULT_THRESHOLDS,
     [DEFAULT_THRESHOLDS EXCEPT !.position_size_usdt = 500],
     [DEFAULT_THRESHOLDS EXCEPT !.trade_size = 50, !.position_size_usdt = 500]}

RecPrices == {9700, 10300}

InitRec ==
    /\ ledger \in EvalLedgers
    /\ signal \in {Some(l) : l \in Labels}
    /\ thresholds \in RecConfigs
    /\ market_data \in {Some(Snapshot(p, None, None, None)) : p \in RecPrices}
    /\ historical_data = <<>>
    /\ read_error = FALSE
    /\ threshold_file = Some(ThresholdRow(DEFAULT_THRESHOLDS))
    /\ ending = FALSE
    /\ pc = "call"
    /\ loop_count = 0
    /\ should_execute = FALSE
    /\ calls = {}
    /\ position = <<None, None>>
    /\ saving = None
    /\ recent_signals = None
    /\ again = None
    /\ args = None
    /\ result = None
    /\ active_sessions = <<>>
    /\ now = 0
    /\ issued = {}
    /\ revoked = <<>>
    /\ failure = "none"

\* execute_trade(signal, market_data, thresholds); append_fails: the write
\* to order.csv raises
RecCall ==
    /\ pc = "call"
    /\ \E append_fails \in BOOLEAN :
          /\ ledger' = execute_trade(Val(signal), market_data, thresholds,
                                     ledger, append_fails)
          /\ failure' = IF append_fails THEN "append" ELSE "none"
    /\ pc' = "returned"
    /\ UNCHANGED <<historical_data, threshold_file, ending, loop_count,
                   thresholds, market_data, read_error, signal, should_execute,
                   calls, position, saving, recent_signals, again, unitVars>>

NextRec == RecCall

SpecRec == InitRec /\ [][NextRec]_vars

-----------------------------------------------------------------------------
(* Functions called on their own: the arguments are drawn in args and the *)
(* value returned is kept in result.  The trading loop and the web routes  *)
(* are at rest.                                                            *)

\* every variable of the trading loop and of the routes but pc
tradingVars == <<ledger, historical_data, threshold_file, ending, loop_count,
                 thresholds, market_data, read_error, signal, should_execute,
                 calls, position, saving, recent_signals, again, failure>>

\* the state of the application before the loop has started, but for the
\* thresholds
AtRest ==
    /\ ledger = <<>>
    /\ historical_data = <<>>
    /\ ending = FALSE
    /\ loop_count = 0
    /\ market_data = None
    /\ read_error = FALSE
    /\ signal = None
    /\ should_execute = FALSE
    /\ calls = {}
    /\ position = <<None, None>>
    /\ saving = None
    /\ recent_signals = None
    /\ again = None
    /\ failure = "none"

-----------------------------------------------------------------------------
(* SpecInd: one call of calculate_technical_indicators on a history and a *)
(* window                                                                  *)

\* largest indicator_window handed to calculate_technical_indicators
MaxWindow == 30

\* a history of n observations
HistoryOf(n) == [i \in 1..n |-> Snapshot(10000, None, None, None)]

\* what the ta library computes on a long enough history: a full triple,
\* or one whose signal line is still NaN
Computed == {<<Some(50), Some(1), Some(-1)>>, <<Some(50), Some(1), None>>}

InitInd ==
    /\ AtRest
    /\ threshold_file = Some(ThresholdRow(DEFAULT_THRESHOLDS))
    /\ thresholds = DEFAULT_THRESHOLDS
    /\ pc = "call"
    /\ \E w \in 0..MaxWindow, n \in 0..(MaxWindow + 2), c \in Computed :
          args = [historical_data |-> HistoryOf(n), indicator_window |-> w,
                  computed |-> c]
    /\ result = None
    /\ active_sessions = <<>>
    /\ now = 0
    /\ issued = {}
    /\ revoked = <<>>

\* rsi, macd, signal_line = calculate_technical_indicators(historical_data,
\*                                                         indicator_window)
IndCall ==
    /\ pc = "call"
    /\ result' = Some(calculate_technical_indicators(args.historical_data,
                          args.indicator_window, args.computed))
    /\ pc' = "returned"
    /\ UNCHANGED <<tradingVars, args, sessionVars>>

NextInd == IndCall

SpecInd == InitInd /\ [][NextInd]_vars

-----------------------------------------------------------------------------
(* SpecLoad: one call of load_trading_thresholds on a threshold.csv that   *)
(* is missing, has no data row, or has one data row                        *)

\* stored configurations, some out of range and some with the relations
\* between the thresholds violated
StoredConfigs ==
    {[DEFAULT_THRESHOLDS EXCEPT !.rsi_buy_threshold = rb, !.stop_loss = sl,
                                !.loop_interval = li, !.active = a] :
        rb \in {30, 70, 75}, sl \in {20, 25, 200}, li \in {60, 5},
        a \in BOOLEAN}

\* texts of the active field
ActiveTexts == {"1", "0", "True", "False", ""}

\* rows of text: those of the stored configurations, each also with one
\* numeric field that is no number or with another text for active
StoredRows ==
    {ThresholdRow(c) : c \in StoredConfigs}
    \cup {[ThresholdRow(c) EXCEPT ![f] = None] :
             c \in StoredConfigs, f \in NumericFields}
    \cup {[ThresholdRow(c) EXCEPT !.active = t] :
             c \in StoredConfigs, t \in ActiveTexts}

InitLoad ==
    /\ AtRest
    /\ pc = "call"
    /\ \/ args = [exists |-> FALSE] /\ threshold_file = None
       \/ args = [exists |-> TRUE] /\ threshold_file = None
       \/ /\ args = [exists |-> TRUE]
          /\ threshold_file \in {Some(row) : row \in StoredRows}
    /\ thresholds = Unusual
    /\ result = None
    /\ active_sessions = <<>>
    /\ now = 0
    /\ issued = {}
    /\ revoked = <<>>

\* thresholds = load_trading_thresholds(); the warnings it prints are kept
\* in result.  With no data row the function returns before it validates.
LoadCall ==
    /\ pc = "call"
    /\ LET file   == ensure_threshold_csv_exists(args.exists, threshold_file)
           config == load_trading_thresholds(file)
       IN  /\ threshold_file' = file
           /\ thresholds' = config
           /\ result' = IF file = None THEN Some({})
                        ELSE Some(validate_all_parameters(config))
    /\ pc' = "returned"
    /\ UNCHANGED <<ledger, historical_data, ending, loop_count, market_data,
                   read_error, signal, should_execute, calls, position,
                   saving, recent_signals, again, failure, args,
                   sessionVars>>

NextLoad == LoadCall

SpecLoad == InitLoad /\ [][NextLoad]_vars

-----------------------------------------------------------------------------
(* SpecExit: one call of check_stop_loss_take_profit on a position, a      *)
(* price, a reference price and thresholds                                 *)

\* stop_loss and stop_profit in thousandths: negative, zero and usual ones
StopValues == {-30, -10, 0, 20, 25}

ExitPrices == {9700, 9800, 9900, 10000, 10100, 10200, 10300}

ReferencePrices == {9800, 10000}

InitExit ==
    /\ AtRest
    /\ threshold_file = Some(ThresholdRow(DEFAULT_THRESHOLDS))
    /\ thresholds = DEFAULT_THRESHOLDS
    /\ pc = "call"
    /\ \E pos \in {"LONG", "SHORT"}, p \in ExitPrices, r \in ReferencePrices,
          sl \in StopValues, sp \in StopValues :
          args = [current_position |-> pos, current_price |-> p,
                  last_trade_price |-> r,
                  thresholds |-> [DEFAULT_THRESHOLDS EXCEPT !.stop_loss = sl,
                                                            !.stop_profit = sp]]
    /\ result = None
    /\ active_sessions = <<>>
    /\ now = 0
    /\ issued = {}
    /\ revoked = <<>>

\* check_stop_loss_take_profit(current_position, current_price,
\*                             last_trade_price, thresholds)
ExitCall ==
    /\ pc = "call"
    /\ result' = Some(check_stop_loss_take_profit(args.current_position,
                          args.current_price, args.last_trade_price,
                          args.thresholds))
    /\ pc' = "returned"
    /\ UNCHANGED <<tradingVars, args, sessionVars>>

NextExit == ExitCall

SpecExit == InitExit /\ [][NextExit]_vars

-----------------------------------------------------------------------------
(* SpecCross, SpecRsi, SpecTrend: one call of check_macd_crossover, of     *)
(* analyze_rsi_condition, of get_macd_trend_strength                       *)

\* MACD and signal values, in units of 0.0005, or None
LineValues == {None} \cup {Some(v) : v \in -4..4}

\* values of the previous observation and of the current one
CrossValues == {None, Some(-2), Some(0), Some(2)}

\* histories of 0 to 3 observations; the one before the last takes every
\* pair of values
CrossHistories ==
    {<<>>, <<Snapshot(10000, Some(50), Some(0), Some(2))>>}
    \cup {<<Snapshot(10000, None, m, sl), Snapshot(10000, None, None, None)>> :
             m \in CrossValues, sl \in CrossValues}
    \cup {<<Snapshot(10000, Some(50), Some(2), Some(0)),
            Snapshot(10000, None, m, sl),
            Snapshot(10000, Some(50), Some(0), Some(2))>> :
             m \in CrossValues, sl \in CrossValues}

InitCross ==
    /\ AtRest
    /\ threshold_file = Some(ThresholdRow(DEFAULT_THRESHOLDS))
    /\ thresholds = DEFAULT_THRESHOLDS
    /\ pc = "call"
    /\ \E h \in CrossHistories, m \in CrossValues, sl \in CrossValues :
          args = [historical_data |-> h, current_macd |-> m,
                  current_signal |-> sl]
    /\ result = None
    /\ active_sessions = <<>>
    /\ now = 0
    /\ issued = {}
    /\ revoked = <<>>

\* check_macd_crossover(historical_data, current_macd, current_signal)
CrossCall ==
    /\ pc = "call"
    /\ result' = Some(check_macd_crossover(args.historical_data,
                          args.current_macd, args.current_signal))
    /\ pc' = "returned"
    /\ UNCHANGED <<tradingVars, args, sessionVars>>

NextCross == CrossCall

SpecCross == InitCross /\ [][NextCross]_vars

\* RSI values of the whole range 0..100
RsiRange == 0..100

\* buy and sell thresholds, also crossed and inside the neutral zone
RsiBuyThresholds == {20, 30, 45, 70}

RsiSellThresholds == {30, 55, 70, 97}

InitRsi ==
    /\ AtRest
    /\ threshold_file = Some(ThresholdRow(DEFAULT_THRESHOLDS))
    /\ thresholds = DEFAULT_THRESHOLDS
    /\ pc = "call"
    /\ \E r \in RsiRange, b \in RsiBuyThresholds, s \in RsiSellThresholds :
          args = [rsi_value |-> Some(r), buy_threshold |-> b,
                  sell_threshold |-> s]
    /\ result = None
    /\ active_sessions = <<>>
    /\ now = 0
    /\ issued = {}
    /\ revoked = <<>>

\* analyze_rsi_condition(rsi_value, buy_threshold, sell_threshold)
RsiCall ==
    /\ pc = "call"
    /\ result' = Some(analyze_rsi_condition(args.rsi_value, args.buy_threshold,
                                            args.sell_threshold))
    /\ pc' = "returned"
    /\ UNCHANGED <<tradingVars, args, sessionVars>>

NextRsi == RsiCall

SpecRsi == InitRsi /\ [][NextRsi]_vars

InitTrend ==
    /\ AtRest
    /\ threshold_file = Some(ThresholdRow(DEFAULT_THRESHOLDS))
    /\ thresholds = DEFAULT_THRESHOLDS
    /\ pc = "call"
    /\ \E m \in LineValues, sl \in LineValues :
          args = [current_macd |-> m, current_signal |-> sl]
    /\ result = None
    /\ active_sessions = <<>>
    /\ now = 0
    /\ issued = {}
    /\ revoked = <<>>

\* get_macd_trend_strength(current_macd, current_signal)
TrendCall ==
    /\ pc = "call"
    /\ result' = Some(get_macd_trend_strength(args.current_macd,
                                              args.current_signal))
    /\ pc' = "returned"
    /\ UNCHANGED <<tradingVars, args, sessionVars>>

NextTrend == TrendCall

SpecTrend == InitTrend /\ [][NextTrend]_vars

-----------------------------------------------------------------------------
(* SpecAuth: the session store of auth.py.  login, verify_session and      *)
(* logout are called in any order on tokens of a small set while the clock *)
(* advances.  A call runs as one step: the handlers of one process do not  *)
(* overlap here.                                                           *)

\* the strings secrets.token_urlsafe can return, and a client can present
Tokens == {"t1", "t2", "t3"}

\* auth.SESSION_TIMEOUT, 24 hours, in units of 12 hours
SESSION_TIMEOUT == 2

\* the clock stops here
MaxClock == 4

\* del active_sessions[token]
del(sessions, token) ==
    [t \in DOMAIN sessions \ {token} |-> sessions[t]]

\* verify_session that answers False for an expired token and keeps it
verify_session_keeping(sessions, token, time) ==
    IF token \notin DOMAIN sessions
    THEN [sessions |-> sessions, value |-> FALSE]
    ELSE IF time - sessions[token] > SESSION_TIMEOUT
         THEN [sessions |-> sessions, value |-> FALSE]
         ELSE [sessions |-> sessions, value |-> TRUE]

\* verify_session(token) at time.time() = time: the store it leaves and the
\* value it returns
verify_session(sessions, token, time) ==
    IF token \notin DOMAIN sessions
    THEN [sessions |-> sessions, value |-> FALSE]
    ELSE IF time - sessions[token] > SESSION_TIMEOUT
         THEN [sessions |-> del(sessions, token), value |-> FALSE]
         ELSE [sessions |-> sessions, value |-> TRUE]

\* why a token stopped being valid: the first reason is kept
Revoke(token, reason) ==
    IF token \in DOMAIN revoked THEN revoked
    ELSE revoked @@ (token :> reason)

InitAuth ==
    /\ AtRest
    /\ threshold_file = Some(ThresholdRow(DEFAULT_THRESHOLDS))
    /\ thresholds = DEFAULT_THRESHOLDS
    /\ pc = "start"
    /\ args = None
    /\ result = None
    /\ active_sessions = <<>>
    /\ now = 0
    /\ issued = {}
    /\ revoked = <<>>

\* login with valid credentials: create_session(username).  The token is
\* 32 random bytes: it is none of the strings issued or presented before.
CreateSession ==
    /\ \E token \in Tokens \ (issued \cup DOMAIN revoked) :
          /\ active_sessions' = active_sessions @@ (token :> now)
          /\ issued' = issued \cup {token}
          /\ args' = [token |-> token]
    /\ result' = None
    /\ pc' = "create_session"
    /\ UNCHANGED <<tradingVars, now, revoked>>

\* verify_session(token) on any string a client presents
VerifySession ==
    /\ \E token \in Tokens :
          LET r == verify_session(active_sessions, token, now)
          IN  /\ active_sessions' = r.sessions
              /\ result' = Some(r.value)
              /\ args' = [token |-> token]
              /\ revoked' =
                    IF r.value THEN revoked
                    ELSE Revoke(token,
                                IF token \in DOMAIN active_sessions
                                THEN "expired" ELSE "absent")
    /\ pc' = "verify_session"
    /\ UNCHANGED <<tradingVars, now, issued>>

\* logout with any string as the bearer token
Logout ==
    /\ \E token \in Tokens :
          /\ args' = [token |-> token]
          /\ IF token \in DOMAIN active_sessions
             THEN /\ active_sessions' = del(active_sessions, token)
                  /\ revoked' = Revoke(token, "logout")
             ELSE UNCHANGED <<active_sessions, revoked>>
    /\ result' = None
    /\ pc' = "logout"
    /\ UNCHANGED <<tradingVars, now, issued>>

\* time passes
Tick ==
    /\ now < MaxClock
    /\ now' = now + 1
    /\ pc' = "tick"
    /\ UNCHANGED <<tradingVars, args, result, active_sessions, issued,
                   revoked>>

NextAuth ==
    \/ CreateSession
    \/ VerifySession
    \/ Logout
    \/ Tick

SpecAuth == InitAuth /\ [][NextAuth]_vars

-----------------------------------------------------------------------------
(* Spec: the trading loop (trading_bot.main_loop) and the web routes that  *)
(* share its state (api_routes).  A web handler that evaluates runs as one *)
(* step followed by the step that returns its response.                    *)

\* iterations of the trading loop
MaxLoops == 2

\* what one cycle may fetch and compute: the price, and the indicator
\* triple the ta library returns on a long enough history.  An entry
\* pattern at 100.00 on either side, a fall with a MACD of exactly 0, a
\* rise with no signal line yet.
Feed == {<<10000, <<Some(22), Some(4), Some(-1)>> >>,
         <<10000, <<Some(75), Some(-3), Some(2)>> >>,
         <<9700,  <<Some(50), Some(0), Some(2)>> >>,
         <<10300, <<Some(28), Some(4), None>> >>}

\* the data rows of market_data.csv as found at startup: two rows short
\* of the default indicator window (the first cycle computes no
\* indicator, the second does), and one row more than the cache holds
StoredHistories ==
    {[i \in 1..n |-> Snapshot(10000, Some(50), Some(1), Some(3))] :
        n \in {24, CACHE_SIZE + 1}}

\* order.csv as found at startup
StoredLedgers == {<<>>, <<Order("BUY", 10000)>>}

\* configurations found in threshold.csv at startup
SavedConfigs == {DEFAULT_THRESHOLDS, Inactive}

\* bodies posted to /save-config: the defaults with active as 1, and
\* trading switched off with active as 0 and as the boolean false
ConfigRequests ==
    {[DEFAULT_THRESHOLDS EXCEPT !.active = "1"],
     [DEFAULT_THRESHOLDS EXCEPT !.active = "0"],
     [DEFAULT_THRESHOLDS EXCEPT !.active = "false"]}

\* start_background_trading: load_historical_data(), the CSV files exist,
\* main_loop starts with create_parameter_summary()
Init ==
    /\ ledger \in StoredLedgers
    /\ \E rows \in StoredHistories : historical_data = load_historical_data(rows)
    /\ threshold_file \in {Some(ThresholdRow(c)) : c \in SavedConfigs}
    /\ ending = FALSE
    /\ pc = "while"
    /\ loop_count = 0
    /\ thresholds = load_trading_thresholds(threshold_file)
    /\ market_data = None
    /\ read_error = FALSE
    /\ signal = None
    /\ should_execute = FALSE
    /\ calls = {}
    /\ position = <<None, None>>
    /\ saving = None
    /\ recent_signals = None
    /\ again = None
    /\ args = None
    /\ result = None
    /\ active_sessions = <<>>
    /\ now = 0
    /\ issued = {}
    /\ revoked = <<>>
    /\ failure = "none"

\* the process is alive and no web response is being returned
Alive == pc # "killed" /\ recent_signals = None

loopVars == <<loop_count, thresholds, market_data, read_error, signal,
              should_execute, calls, position>>

webVars == <<saving, recent_signals>>

\* a loop that takes the shutdown request back when it leaves
LoopTest_consume ==
    /\ Alive
    /\ pc = "while"
    /\ IF ending
       THEN pc' = "ended" /\ ending' = FALSE /\ UNCHANGED loop_count
       ELSE /\ loop_count < MaxLoops
            /\ loop_count' = loop_count + 1
            /\ pc' = "load"
            /\ UNCHANGED ending
    /\ market_data' = None
    /\ read_error' = FALSE
    /\ signal' = None
    /\ should_execute' = FALSE
    /\ calls' = {}
    /\ position' = <<None, None>>
    /\ UNCHANGED <<ledger, historical_data, threshold_file, thresholds,
                   webVars, again, unitVars, failure>>

\* while not trading_state.ending: loop_count += 1.  The locals of the
\* previous iteration are dead here (each is assigned before it is read
\* again) and are cleared.
LoopTest ==
    /\ Alive
    /\ pc = "while"
    /\ IF ending
       THEN pc' = "ended" /\ UNCHANGED loop_count
       ELSE /\ loop_count < MaxLoops
            /\ loop_count' = loop_count + 1
            /\ pc' = "load"
    /\ market_data' = None
    /\ read_error' = FALSE
    /\ signal' = None
    /\ should_execute' = FALSE
    /\ calls' = {}
    /\ position' = <<None, None>>
    /\ UNCHANGED <<ledger, historical_data, threshold_file, ending, thresholds,
                   webVars, again, unitVars, failure>>

\* thresholds = load_trading_thresholds(): the first statement of the
\* iteration that can fail; what failed in the previous one is forgotten
LoadThresholds ==
    /\ Alive
    /\ pc = "load"
    /\ thresholds' = load_trading_thresholds(threshold_file)
    /\ pc' = "fetch"
    /\ failure' = "none"
    /\ UNCHANGED <<ledger, historical_data, threshold_file, ending, loop_count,
                   market_data, read_error, signal, should_execute, calls,
                   position, webVars, again, unitVars>>

\* raw_data = fetch_binance_data(); market_data =
\* create_market_data_with_indicators(raw_data, indicator_window)
Fetch ==
    /\ Alive
    /\ pc = "fetch"
    /\ \/ /\ pc' = "sleep"
          /\ failure' = "fetch"
          /\ UNCHANGED market_data
       \/ \E f \in Feed :
             /\ market_data' = Some(create_market_data_with_indicators(f[1],
                                    historical_data, thresholds.indicator_window,
                                    f[2]))
             /\ pc' = "save"
             /\ UNCHANGED failure
    /\ UNCHANGED <<ledger, historical_data, threshold_file, ending, loop_count,
                   thresholds, read_error, signal, should_execute, calls,
                   position, webVars, again, unitVars>>

\* a save that updates the cache before it writes the file, so that a
\* failed write leaves the snapshot in the history
SaveMarketData_cachefirst ==
    /\ Alive
    /\ pc = "save"
    /\ historical_data' = Append(historical_data,
                                 parse_csv_row(Val(market_data)))
    /\ \/ pc' = "sleep" /\ failure' = "save"
       \/ pc' = "trim" /\ UNCHANGED failure
    /\ UNCHANGED <<ledger, threshold_file, ending, loopVars, webVars, again,
                   unitVars>>

\* save_market_data(market_data): append_to_csv up to the append of
\* update_historical_cache, or a failed write
SaveMarketData ==
    /\ Alive
    /\ pc = "save"
    /\ \/ /\ pc' = "sleep"
          /\ failure' = "save"
          /\ UNCHANGED historical_data
       \/ /\ historical_data' = Append(historical_data,
                                       parse_csv_row(Val(market_data)))
          /\ pc' = "trim"
          /\ UNCHANGED failure
    /\ UNCHANGED <<ledger, threshold_file, ending, loopVars, webVars, again,
                   unitVars>>

\* an update of the cache that never evicts
TrimCache_keepall ==
    /\ Alive
    /\ pc = "trim"
    /\ pc' = "evaluate"
    /\ UNCHANGED <<ledger, historical_data, threshold_file, ending, loopVars,
                   webVars, again, unitVars, failure>>

\* update_historical_cache: keep the last cache_size records
TrimCache ==
    /\ Alive
    /\ pc = "trim"
    /\ historical_data' =
          IF Len(historical_data) > CACHE_SIZE
          THEN SubSeq(historical_data, Len(historical_data) - CACHE_SIZE + 1,
                      Len(historical_data))
          ELSE historical_data
    /\ pc' = "evaluate"
    /\ UNCHANGED <<ledger, threshold_file, ending, loopVars, webVars, again,
                   unitVars, failure>>

\* the loop enters check_trading_signals_with_thresholds
EvaluateCall ==
    /\ Alive
    /\ pc = "evaluate"
    /\ pc' = "evaluating"
    /\ UNCHANGED <<ledger, historical_data, threshold_file, ending, loopVars,
                   webVars, again, unitVars, failure>>

\* signal, should_execute = check_trading_signals_with_thresholds(...)
EvaluateReturn ==
    /\ Alive
    /\ pc = "evaluating"
    /\ \E read_fails \in BOOLEAN :
          LET r == check_trading_signals_with_thresholds(market_data, thresholds,
                       ledger, read_fails, historical_data)
          IN  /\ read_error' = read_fails
              /\ signal' = Some(r.signal)
              /\ should_execute' = r.execute
              /\ calls' = r.calls
              /\ position' = r.position
    /\ pc' = "execute"
    /\ UNCHANGED <<ledger, historical_data, threshold_file, ending, loop_count,
                   thresholds, market_data, webVars, again, unitVars, failure>>

\* if should_execute: execute_trade(signal, market_data, thresholds)
ExecuteTrade ==
    /\ Alive
    /\ pc = "execute"
    /\ IF should_execute
       THEN \E append_fails \in BOOLEAN :
               /\ ledger' = execute_trade(Val(signal), market_data, thresholds,
                                          ledger, append_fails)
               /\ failure' = IF append_fails THEN "append" ELSE "none"
       ELSE UNCHANGED <<ledger, failure>>
    /\ pc' = "status"
    /\ UNCHANGED <<historical_data, threshold_file, ending, loopVars, webVars,
                   again, unitVars>>

\* the status line of every fifth iteration
StatusEvery == 5

\* display_status_info raises TypeError when the detailed line formats an
\* absent MACD or signal line with ':.6f'
display_status_info_raises(md, count) ==
    /\ count % StatusEvery = 0
    /\ Val(md).rsi # None
    /\ (Val(md).macd = None \/ Val(md).signal_line = None)

\* display_status_info(market_data, signal, thresholds, loop_count); an
\* exception it raises is caught by 'except Exception' of main_loop
DisplayStatus ==
    /\ Alive
    /\ pc = "status"
    /\ IF display_status_info_raises(market_data, loop_count)
       THEN pc' = "backoff" /\ failure' = "exception"
       ELSE pc' = "sleep" /\ UNCHANGED failure
    /\ UNCHANGED <<ledger, historical_data, threshold_file, ending, loopVars,
                   webVars, again, unitVars>>

\* any other exception raised inside the try block, here while the
\* evaluation is running: 'except Exception' of main_loop catches it
RaiseInIteration ==
    /\ Alive
    /\ pc = "evaluating"
    /\ pc' = "backoff"
    /\ failure' = "exception"
    /\ UNCHANGED <<ledger, historical_data, threshold_file, ending, loopVars,
                   webVars, again, unitVars>>

\* time.sleep(loop_interval)
Sleep ==
    /\ Alive
    /\ pc = "sleep"
    /\ pc' = "while"
    /\ UNCHANGED <<ledger, historical_data, threshold_file, ending, loopVars,
                   webVars, again, unitVars, failure>>

\* an exception handler that leaves the loop
Backoff_leave ==
    /\ Alive
    /\ pc = "backoff"
    /\ pc' = "ended"
    /\ UNCHANGED <<ledger, historical_data, threshold_file, ending, loopVars,
                   webVars, again, unitVars, failure>>

\* time.sleep(5) of the exception handler
Backoff ==
    /\ Alive
    /\ pc = "backoff"
    /\ pc' = "while"
    /\ UNCHANGED <<ledger, historical_data, threshold_file, ending, loopVars,
                   webVars, again, unitVars, failure>>

\* /end: shutdown() sets trading_state.ending
SignalEnd ==
    /\ Alive
    /\ ~ending
    /\ ending' = TRUE
    /\ UNCHANGED <<ledger, historical_data, threshold_file, pc, loopVars,
                   webVars, again, unitVars, failure>>

\* the timer started by shutdown() sends SIGTERM to the process two
\* seconds after the flag is set, wherever the loop is.  The files stay;
\* the memory of the process (the history cache, the locals of the loop
\* and of the handlers) is gone.
Terminate ==
    /\ Alive
    /\ ending
    /\ pc' = "killed"
    /\ historical_data' = <<>>
    /\ market_data' = None
    /\ read_error' = FALSE
    /\ signal' = None
    /\ should_execute' = FALSE
    /\ calls' = {}
    /\ position' = <<None, None>>
    /\ saving' = None
    /\ failure' = "none"
    /\ UNCHANGED <<ledger, threshold_file, ending, loop_count, thresholds,
                   recent_signals, again, unitVars>>

\* /save-config: open(THRESHOLD_CSV_PATH, 'w') truncates the file
SaveConfigOpen ==
    /\ Alive
    /\ saving = None
    /\ \E data \in ConfigRequests : saving' = Some(data)
    /\ threshold_file' = None
    /\ UNCHANGED <<ledger, historical_data, ending, pc, loopVars,
                   recent_signals, again, unitVars, failure>>

\* /save-config: the header and the data row reach the file
SaveConfigWrite ==
    /\ Alive
    /\ saving # None
    /\ threshold_file' = Some(writerow(Val(saving)))
    /\ saving' = None
    /\ UNCHANGED <<ledger, historical_data, ending, pc, loopVars,
                   recent_signals, again, unitVars, failure>>

\* the records /signals evaluates: historical_data[-10:]
LastTen(hist) ==
    SubSeq(hist, Max({1, Len(hist) - 9}), Len(hist))

\* a /signals handler that records the signal of the latest record
GetRecentSignals_records ==
    /\ Alive
    /\ \E read_fails \in BOOLEAN :
          LET th   == load_trading_thresholds(threshold_file)
              data == LastTen(historical_data)
              recs == [i \in 1..Len(data) |->
                        LET r == check_trading_signals_with_thresholds(
                                     Some(data[i]), th, ledger, read_fails,
                                     historical_data)
                        IN  [price |-> data[i].price, signal |-> r.signal,
                             should_execute |-> r.execute]]
          IN  /\ recent_signals' = Some(recs)
              /\ ledger' = IF Len(recs) > 0 /\ recs[Len(recs)].should_execute
                           THEN execute_trade(recs[Len(recs)].signal,
                                              Some(data[Len(data)]), th,
                                              ledger, FALSE)
                           ELSE ledger
    /\ UNCHANGED <<historical_data, threshold_file, ending, pc,
                   loopVars, saving, again, unitVars, failure>>

\* /signals: one evaluation per record of the last ten
GetRecentSignals ==
    /\ Alive
    /\ \E read_fails \in BOOLEAN :
          LET th   == load_trading_thresholds(threshold_file)
              data == LastTen(historical_data)
          IN  recent_signals' =
                Some([i \in 1..Len(data) |->
                        LET r == check_trading_signals_with_thresholds(
                                     Some(data[i]), th, ledger, read_fails,
                                     historical_data)
                        IN  [price |-> data[i].price, signal |-> r.signal,
                             should_execute |-> r.execute]])
    /\ UNCHANGED <<ledger, historical_data, threshold_file, ending, pc,
                   loopVars, saving, again, unitVars, failure>>

\* the /signals response is returned
Respond ==
    /\ pc # "killed"
    /\ recent_signals # None
    /\ recent_signals' = None
    /\ UNCHANGED <<ledger, historical_data, threshold_file, ending, pc,
                   loopVars, saving, again, unitVars, failure>>

\* the steps of the trading loop thread
Loop ==
    \/ LoopTest
    \/ LoadThresholds
    \/ Fetch
    \/ SaveMarketData
    \/ TrimCache
    \/ EvaluateCall
    \/ EvaluateReturn
    \/ ExecuteTrade
    \/ DisplayStatus
    \/ RaiseInIteration
    \/ Sleep
    \/ Backoff

Next ==
    \/ LoopTest
    \/ LoadThresholds
    \/ Fetch
    \/ SaveMarketData
    \/ TrimCache
    \/ EvaluateCall
    \/ EvaluateReturn
    \/ ExecuteTrade
    \/ DisplayStatus
    \/ RaiseInIteration
    \/ Sleep
    \/ Backoff
    \/ SignalEnd
    \/ Terminate
    \/ SaveConfigOpen
    \/ SaveConfigWrite
    \/ GetRecentSignals
    \/ Respond

Spec == Init /\ [][Next]_vars

\* main_loop runs in a thread of its own (start_background_trading) and
\* no step of it waits for another thread, so the loop thread goes on
\* whenever it can.  A handler that has computed its response returns it.
\* The model lets no loop step happen between a handler's evaluation and
\* its response, so the loop is enabled again and again rather than
\* without interruption: its fairness is strong.
SpecFair == Spec /\ SF_vars(Loop) /\ WF_vars(Respond)

-----------------------------------------------------------------------------
(* SpecSig: /signals requests on a rolling history, with the trading loop  *)
(* asleep, a flat ledger and the default thresholds                        *)

\* longest rolling history /signals is given
MaxRecords == 3

\* observations of the rolling history: MACD below its signal line; MACD
\* just above it with an extremely oversold RSI; MACD just below it with
\* an extremely overbought RSI; MACD far above it with an oversold RSI
SigObs == {Snapshot(10000, Some(50), Some(1), Some(3)),
           Snapshot(10000, Some(22), Some(1), Some(0)),
           Snapshot(10000, Some(78), Some(-1), Some(0)),
           Snapshot(10000, Some(22), Some(4), Some(-1))}

InitSig ==
    /\ ledger = <<>>
    /\ historical_data \in SeqsUpTo(SigObs, MaxRecords)
    /\ threshold_file = Some(ThresholdRow(DEFAULT_THRESHOLDS))
    /\ thresholds = DEFAULT_THRESHOLDS
    /\ ending = FALSE
    /\ pc = "sleep"
    /\ loop_count = 1
    /\ market_data = None
    /\ read_error = FALSE
    /\ signal = None
    /\ should_execute = FALSE
    /\ calls = {}
    /\ position = <<None, None>>
    /\ saving = None
    /\ recent_signals = None
    /\ again = None
    /\ failure = "none"
    /\ args = None
    /\ result = None
    /\ active_sessions = <<>>
    /\ now = 0
    /\ issued = {}
    /\ revoked = <<>>

NextSig ==
    \/ GetRecentSignals
    \/ Respond

SpecSig == InitSig /\ [][NextSig]_vars

-----------------------------------------------------------------------------
(* SpecSave: one /save-config request followed by one call of              *)
(* load_trading_thresholds, nothing else running                           *)

\* bodies /save-config accepts: the eleven fields, the numeric ones
\* numbers, active as 1, 0, true or false
SaveBodies ==
    {[c EXCEPT !.active = a] :
        c \in StoredConfigs, a \in {"1", "0", "true", "false"}}

InitSave ==
    /\ AtRest
    /\ threshold_file = Some(ThresholdRow(DEFAULT_THRESHOLDS))
    /\ thresholds = Unusual
    /\ pc = "call"
    /\ \E data \in SaveBodies : args = [data |-> data]
    /\ result = None
    /\ active_sessions = <<>>
    /\ now = 0
    /\ issued = {}
    /\ revoked = <<>>

\* save_configuration: the file is opened for writing, the header and the
\* data row are written and the file is closed
SaveCall ==
    /\ pc = "call"
    /\ threshold_file' = Some(writerow(args.data))
    /\ pc' = "saved"
    /\ UNCHANGED <<ledger, historical_data, ending, loopVars, webVars, again,
                   failure, unitVars>>

\* the next load_trading_thresholds()
LoadSaved ==
    /\ pc = "saved"
    /\ thresholds' = load_trading_thresholds(threshold_file)
    /\ pc' = "returned"
    /\ UNCHANGED <<ledger, historical_data, threshold_file, ending, loop_count,
                   market_data, read_error, signal, should_execute, calls,
                   position, webVars, again, failure, unitVars>>

NextSave ==
    \/ SaveCall
    \/ LoadSaved

SpecSave == InitSave /\ [][NextSave]_vars

-----------------------------------------------------------------------------
(* SpecOff: the trading loop and the web routes when every configuration   *)
(* that reaches threshold.csv has trading switched off: the file found at  *)
(* startup and every body posted to /save-config                           *)

\* bodies of /save-config that switch trading off
InactiveRequests == {data \in ConfigRequests : data.active \in {"0", "false"}}

InitOff ==
    /\ Init
    /\ threshold_file = Some(ThresholdRow(Inactive))

\* /save-config with a body that switches trading off:
\* open(THRESHOLD_CSV_PATH, 'w') truncates the file
SaveConfigOff ==
    /\ Alive
    /\ saving = None
    /\ \E data \in InactiveRequests : saving' = Some(data)
    /\ threshold_file' = None
    /\ UNCHANGED <<ledger, historical_data, ending, pc, loopVars,
                   recent_signals, again, unitVars, failure>>

NextOff ==
    \/ LoopTest
    \/ LoadThresholds
    \/ Fetch
    \/ SaveMarketData
    \/ TrimCache
    \/ EvaluateCall
    \/ EvaluateReturn
    \/ ExecuteTrade
    \/ DisplayStatus
    \/ RaiseInIteration
    \/ Sleep
    \/ Backoff
    \/ SignalEnd
    \/ Terminate
    \/ SaveConfigOff
    \/ SaveConfigWrite
    \/ GetRecentSignals
    \/ Respond

SpecOff == InitOff /\ [][NextOff]_vars

-----------------------------------------------------------------------------
(* Properties of the evaluator, checked under SpecEval                     *)

Returned == pc = "returned"

\* the call passed the gate: thresholds active and a snapshot present
Evaluated == Returned /\ thresholds.active /\ market_data # None

Result(label, execute) == signal = Some(label) /\ should_execute = execute

PositionOpen == position[1] \in {Some("LONG"), Some("SHORT")}

PositionNone == position[1] = None

\* the entry rule and the classifiers it consults
EntryFunctions == {"check_new_position_signals", "check_macd_crossover",
                   "get_macd_trend_strength", "analyze_rsi_condition",
                   "check_buy_conditions", "check_sell_conditions"}

\* the exit conditions of section 4.2, in price cents and thousandths
LongStopLoss(p, r, th) == p * 1000 <= r * (1000 - th.stop_loss)

LongTakeProfit(p, r, th) == p * 1000 >= r * (1000 + th.stop_profit)

ShortStopLoss(p, r, th) == p * 1000 >= r * (1000 + th.stop_loss)

ShortTakeProfit(p, r, th) == p * 1000 <= r * (1000 - th.stop_profit)

\* labels of the exit conditions of position kind that match price p
MatchingExits(kind, p, r, th) ==
    IF kind = "LONG"
    THEN {l \in {"SELL_STOP_LOSS", "SELL_TAKE_PROFIT"} :
             \/ l = "SELL_STOP_LOSS" /\ LongStopLoss(p, r, th)
             \/ l = "SELL_TAKE_PROFIT" /\ LongTakeProfit(p, r, th)}
    ELSE {l \in {"BUY_STOP_LOSS", "BUY_TAKE_PROFIT"} :
             \/ l = "BUY_STOP_LOSS" /\ ShortStopLoss(p, r, th)
             \/ l = "BUY_TAKE_PROFIT" /\ ShortTakeProfit(p, r, th)}

CurrentExits ==
    MatchingExits(Val(position[1]), Val(market_data).price,
                  Val(position[2]), thresholds)

\* C1: when the derived position is LONG or SHORT with a reference price
\* and one of its exit conditions matches the price, the call returns a
\* matching exit label with execute = TRUE and enters no entry rule or
\* classifier, whatever the indicators are.
C1_ExitBeforeEntry ==
    (Evaluated /\ PositionOpen /\ position[2] # None /\ CurrentExits # {})
        => /\ signal \in {Some(l) : l \in CurrentExits}
           /\ should_execute = TRUE
           /\ calls \cap EntryFunctions = {}

\* a LONG position at its stop-loss bound while the indicators satisfy a
\* BUY entry rule
C1_Witness ==
    /\ Evaluated
    /\ position = <<Some("LONG"), Some(10000)>>
    /\ market_data = Some(Snapshot(9800, Some(22), Some(4), Some(-1)))
    /\ thresholds = DEFAULT_THRESHOLDS
    /\ Result("SELL_STOP_LOSS", TRUE)

\* C2: when a position is open and no exit condition matches, the call
\* returns (HOLD, FALSE) and enters no entry rule, even when the
\* indicators satisfy an entry rule.
C2_OpenPositionHolds ==
    (Evaluated /\ PositionOpen /\ position[2] # None /\ CurrentExits = {})
        => /\ Result("HOLD", FALSE)
           /\ calls \cap EntryFunctions = {}

\* a SHORT position between its bounds while the indicators satisfy a SELL
\* entry rule
C2_Witness ==
    /\ Evaluated
    /\ position = <<Some("SHORT"), Some(10000)>>
    /\ market_data = Some(Snapshot(9801, Some(75), Some(-3), Some(2)))
    /\ thresholds = DEFAULT_THRESHOLDS
    /\ Result("HOLD", FALSE)

\* C4: for a LONG position with reference price r: SELL_STOP_LOSS for
\* every price p <= r*(1-stopLoss), SELL_TAKE_PROFIT for every
\* p >= r*(1+stopProfit) that is not a stop-loss price, HOLD for every
\* other price.
C4_LongBoundaries ==
    (Evaluated /\ position[1] = Some("LONG") /\ position[2] # None)
        => LET p == Val(market_data).price
               r == Val(position[2])
           IN  IF LongStopLoss(p, r, thresholds)
               THEN Result("SELL_STOP_LOSS", TRUE)
               ELSE IF LongTakeProfit(p, r, thresholds)
               THEN Result("SELL_TAKE_PROFIT", TRUE)
               ELSE Result("HOLD", FALSE)

\* r = 100, stopLoss = 0.02, price 98.00
C4_Witness ==
    /\ Evaluated
    /\ position = <<Some("LONG"), Some(10000)>>
    /\ Val(market_data).price = 9800
    /\ thresholds.stop_loss = 20
    /\ Result("SELL_STOP_LOSS", TRUE)

\* C5: for a SHORT position with reference price r: BUY_STOP_LOSS for
\* every price p >= r*(1+stopLoss), BUY_TAKE_PROFIT for every
\* p <= r*(1-stopProfit) that is not a stop-loss price, HOLD for every
\* other price.
C5_ShortBoundaries ==
    (Evaluated /\ position[1] = Some("SHORT") /\ position[2] # None)
        => LET p == Val(market_data).price
               r == Val(position[2])
           IN  IF ShortStopLoss(p, r, thresholds)
               THEN Result("BUY_STOP_LOSS", TRUE)
               ELSE IF ShortTakeProfit(p, r, thresholds)
               THEN Result("BUY_TAKE_PROFIT", TRUE)
               ELSE Result("HOLD", FALSE)

\* r = 100, stopProfit = 0.025, price 97.4
C5_Witness ==
    /\ Evaluated
    /\ position = <<Some("SHORT"), Some(10000)>>
    /\ Val(market_data).price = 9740
    /\ thresholds.stop_profit = 25
    /\ Result("BUY_TAKE_PROFIT", TRUE)

\* the snapshot of a call that reached the entry rules with all three
\* indicators present
EntryEvaluated ==
    /\ Evaluated
    /\ PositionNone
    /\ None \notin {Val(market_data).rsi, Val(market_data).macd,
                    Val(market_data).signal_line}

\* C8: with active thresholds and position NONE, an absent rsi, macd or
\* signal_line gives (NO_SIGNAL, FALSE) and no crossover, trend or RSI
\* classifier is entered.
C8_EntryNeedsAllIndicators ==
    (/\ Evaluated
     /\ PositionNone
     /\ None \in {Val(market_data).rsi, Val(market_data).macd,
                  Val(market_data).signal_line})
        => /\ Result("NO_SIGNAL", FALSE)
           /\ calls \cap (EntryFunctions \ {"check_new_position_signals"}) = {}

\* rsi = 25, macd absent, signal_line = 0.001, empty ledger
C8_Witness ==
    /\ Evaluated
    /\ ledger = <<>>
    /\ market_data = Some(Snapshot(10000, Some(25), None, Some(2)))
    /\ "check_new_position_signals" \in calls
    /\ Result("NO_SIGNAL", FALSE)

\* the classifier values of the current snapshot
Crossover ==
    check_macd_crossover(historical_data, Val(market_data).macd,
                         Val(market_data).signal_line)

Trend ==
    get_macd_trend_strength(Val(market_data).macd, Val(market_data).signal_line)

RsiCondition ==
    analyze_rsi_condition(Val(market_data).rsi, thresholds.rsi_buy_threshold,
                          thresholds.rsi_sell_threshold)

\* rules (a), (b), (c) of section 4.2
BuyRule ==
    /\ Val(Val(market_data).macd) > thresholds.macd_buy_threshold
    /\ \/ /\ Crossover[1]
          /\ Crossover[3] = Some("strong")
          /\ RsiCondition \in {"oversold", "extremely_oversold"}
       \/ /\ Crossover[1]
          /\ RsiCondition = "extremely_oversold"
       \/ /\ Trend = "strong_bullish"
          /\ RsiCondition \in {"oversold", "extremely_oversold"}

\* the symmetric rules for SELL
SellRule ==
    /\ Val(Val(market_data).macd) < thresholds.macd_sell_threshold
    /\ \/ /\ Crossover[2]
          /\ Crossover[3] = Some("strong")
          /\ RsiCondition \in {"overbought", "extremely_overbought"}
       \/ /\ Crossover[2]
          /\ RsiCondition = "extremely_overbought"
       \/ /\ Trend = "strong_bearish"
          /\ RsiCondition \in {"overbought", "extremely_overbought"}

\* C9: with active thresholds, position NONE and all three indicators
\* present, the call returns (BUY_SIGNAL, TRUE) if and only if
\* macd > macdBuyThreshold and one of the rules (a), (b), (c) holds.
C9_BuyIffRule ==
    EntryEvaluated
        => /\ Result("BUY_SIGNAL", TRUE) <=> BuyRule
           /\ signal = Some("BUY_SIGNAL") => should_execute = TRUE

\* empty ledger, rsi = 22 at buyThreshold = 30, macd = 0.002 > 0.0, a weak
\* bullish trend and a bullish crossover
C9_Witness ==
    /\ EntryEvaluated
    /\ ledger = <<>>
    /\ thresholds = DEFAULT_THRESHOLDS
    /\ market_data = Some(Snapshot(10000, Some(22), Some(4), Some(2)))
    /\ Crossover[1]
    /\ Trend = "weak_bullish"
    /\ Result("BUY_SIGNAL", TRUE)

\* C10: with active thresholds, position NONE, all three indicators
\* present and no BUY rule satisfied, the call returns (SELL_SIGNAL, TRUE)
\* if and only if macd < macdSellThreshold and one of the SELL rules
\* holds; when neither a BUY nor a SELL rule holds it returns
\* (HOLD, FALSE).
C10_SellIffRule ==
    (EntryEvaluated /\ ~BuyRule)
        => /\ Result("SELL_SIGNAL", TRUE) <=> SellRule
           /\ signal = Some("SELL_SIGNAL") => should_execute = TRUE
           /\ ~SellRule => Result("HOLD", FALSE)

\* a weak bearish crossover with an extremely overbought RSI
C10_Witness ==
    /\ EntryEvaluated
    /\ ~BuyRule
    /\ Crossover[2]
    /\ Crossover[3] = Some("weak")
    /\ Trend = "weak_bearish"
    /\ RsiCondition = "extremely_overbought"
    /\ Result("SELL_SIGNAL", TRUE)

-----------------------------------------------------------------------------
(* The gate of the evaluator, checked under Spec                           *)

\* snapshots a caller can hand to the evaluator in the current state
GateSnapshots ==
    {None} \cup {Some(Snapshot(f[1], f[2][1], f[2][2], f[2][3])) : f \in Feed}

\* every call with inactive thresholds or without a snapshot, on the
\* current ledger and history, returns (NO_SIGNAL, FALSE)
GateClosed ==
    \A md \in GateSnapshots, th \in SavedConfigs, read_fails \in BOOLEAN :
        (md = None \/ ~th.active)
            => LET r == check_trading_signals_with_thresholds(md, th, ledger,
                            read_fails, historical_data)
               IN  r.signal = "NO_SIGNAL" /\ r.execute = FALSE

\* the evaluation of the running iteration has returned
LoopEvaluated == pc = "execute"

\* the loop's own evaluation, and every evaluation of a /signals response,
\* obeys the gate
GateObserved ==
    /\ (LoopEvaluated /\ ~thresholds.active) => Result("NO_SIGNAL", FALSE)
    /\ (recent_signals # None /\ ~load_trading_thresholds(threshold_file).active)
          => \A i \in DOMAIN Val(recent_signals) :
                /\ Val(recent_signals)[i].signal = "NO_SIGNAL"
                /\ Val(recent_signals)[i].should_execute = FALSE

\* a step taken while the loop holds inactive thresholds leaves the ledger
\* as it is
InactiveKeepsLedger == ~thresholds.active => ledger' = ledger

\* C3: with thresholds.active false or without a snapshot the evaluator
\* returns (NO_SIGNAL, FALSE) for every ledger, price and indicator
\* values, and a loop iteration that runs with inactive thresholds appends
\* nothing to the ledger.
C3_InactiveGate ==
    /\ [](GateClosed /\ GateObserved)
    /\ [][InactiveKeepsLedger]_vars

\* the loop has evaluated with inactive thresholds while the ledger holds
\* a LONG position at 100.00 and the price 97.00 is below its stop-loss
\* bound
C3_Witness ==
    /\ LoopEvaluated
    /\ ~thresholds.active
    /\ ledger = <<Order("BUY", 10000)>>
    /\ Val(market_data).price = 9700
    /\ LongStopLoss(9700, 10000, thresholds)
    /\ Result("NO_SIGNAL", FALSE)

-----------------------------------------------------------------------------
(* Properties of the position tracker, checked under SpecPos               *)

\* C6: a ledger with as many BUY as SELL rows, empty or not, gives
\* (None, None) whatever the prices and the order of the rows.
C6_TieIsFlat ==
    (Returned /\ BuyCount(ledger) = SellCount(ledger))
        => position = <<None, None>>

\* a non-empty tie with two different prices, read without error
C6_Witness ==
    /\ Returned
    /\ ~read_error
    /\ Len(ledger) = 4
    /\ BuyCount(ledger) = 2
    /\ ledger[1].side = "BUY" /\ ledger[2].side = "BUY"
    /\ ledger[1].price # ledger[4].price
    /\ position = <<None, None>>

\* C7: a ledger with unequal counts that was read without error gives LONG
\* exactly when the BUY rows outnumber the SELL rows, SHORT exactly when
\* the SELL rows outnumber the BUY rows, and in both cases the price of
\* the last row.
C7_MajorityAndLastPrice ==
    (Returned /\ ~read_error /\ BuyCount(ledger) # SellCount(ledger))
        => /\ position[1] = Some("LONG") <=> BuyCount(ledger) > SellCount(ledger)
           /\ position[1] = Some("SHORT") <=> SellCount(ledger) > BuyCount(ledger)
           /\ position[2] = Some(ledger[Len(ledger)].price)

\* LONG although the last row is a SELL, whose price differs from the
\* first row's
C7_Witness ==
    /\ Returned
    /\ ~read_error
    /\ Len(ledger) = 3
    /\ ledger[1].side = "BUY" /\ ledger[2].side = "BUY" /\ ledger[3].side = "SELL"
    /\ ledger[1].price = 10000 /\ ledger[3].price = 9800
    /\ position = <<Some("LONG"), Some(9800)>>

-----------------------------------------------------------------------------
(* Properties of the execution recorder, checked under SpecRec             *)

\* the six outcomes that stand for a trade
ActionableLabels == {"BUY_SIGNAL", "SELL_SIGNAL", "BUY_STOP_LOSS",
                     "BUY_TAKE_PROFIT", "SELL_STOP_LOSS", "SELL_TAKE_PROFIT"}

BuyLabels == {"BUY_SIGNAL", "BUY_STOP_LOSS", "BUY_TAKE_PROFIT"}

\* the entry the recorder is to append for the label in signal
RecordedEntry ==
    [side       |-> IF Val(signal) \in BuyLabels THEN "BUY" ELSE "SELL",
     price      |-> Val(market_data).price,
     quantity   |-> thresholds.trade_size,
     trade_size |-> thresholds.trade_size]

\* the call of execute_trade whose write succeeds
RecordStep == pc = "call" /\ pc' = "returned" /\ failure' = "none"

\* C11: called with an actionable label, execute_trade whose write to
\* order.csv succeeds leaves the ledger as the old ledger followed by one
\* entry: side BUY exactly for the labels that start with BUY, the
\* snapshot's price, quantity and trade_size equal to thresholds.trade_size
\* whatever position_size_usdt is.
C11_AppendsOneEntry ==
    [][(RecordStep /\ Val(signal) \in ActionableLabels)
          => ledger' = Append(ledger, RecordedEntry)]_vars

\* a BUY exit appended after a SELL and a BUY, with a trade size and a
\* position size that are not the defaults
C11_Witness ==
    /\ pc = "returned"
    /\ failure = "none"
    /\ signal = Some("BUY_TAKE_PROFIT")
    /\ thresholds.trade_size = 50
    /\ thresholds.position_size_usdt = 500
    /\ Len(ledger) = 3
    /\ ledger[1].side = "SELL" /\ ledger[2].side = "BUY"
    /\ ledger[3] = [side |-> "BUY", price |-> 9700, quantity |-> 50,
                    trade_size |-> 50]

\* C12: called with HOLD or NO_SIGNAL, execute_trade leaves the ledger
\* unchanged.
C12_NonActionableAppendsNothing ==
    [][(pc = "call" /\ pc' = "returned" /\ Val(signal) \in {"HOLD", "NO_SIGNAL"})
          => ledger' = ledger]_vars

-----------------------------------------------------------------------------
(* Properties of repeated evaluation, checked under SpecTwice              *)

Repeated == pc = "repeated"

\* the second call returned what the first returned
SameResult ==
    /\ Val(again).signal = Val(signal)
    /\ Val(again).execute = should_execute

\* both calls read order.csv alike: both reads succeeded or both raised
SameRead == Val(again).read_error = read_error

\* a call of the evaluator writes neither order.csv nor the history
EvaluationKeepsState ==
    ledger' = ledger /\ historical_data' = historical_data

-----------------------------------------------------------------------------
(* Properties of the trading loop and the web routes, checked under Spec   *)

\* update_historical_cache has appended and not yet trimmed
UpdatingCache == pc = "trim"

\* C14 as stated: in every reachable state, the states between the append
\* and the trim of update_historical_cache included, the rolling history
\* holds at most cache_size observations.
C14_CacheBounded == Len(historical_data) <= CACHE_SIZE

\* C14, amended: the rolling history holds at most cache_size observations
\* after startup loading and whenever update_historical_cache is not
\* between its append and its trim; between the two it holds at most
\* cache_size + 1.
C14_BoundedOutsideUpdate ==
    /\ Len(historical_data) <= CACHE_SIZE + 1
    /\ ~UpdatingCache => Len(historical_data) <= CACHE_SIZE

\* a full cache after an update: the oldest record evicted, the snapshot
\* of the cycle last
C14_Witness ==
    /\ pc = "evaluate"
    /\ loop_count = 2
    /\ Len(historical_data) = CACHE_SIZE
    /\ historical_data[CACHE_SIZE].price = Val(market_data).price
    /\ historical_data[CACHE_SIZE - 1].price = 9700


\* what can fail inside an iteration: the fetch returns nothing, saving
\* the snapshot fails, appending the order fails, a step raises
Failures == {"fetch", "save", "append", "exception"}

\* iteration k has failed and no shutdown has been requested
FailedIteration(k) == loop_count = k /\ failure \in Failures /\ ~ending

\* iteration k + 1 has started
StartedIteration(k) == loop_count = k /\ pc = "load"

\* C15: the loop leaves its while statement only with the ending flag
\* set, and after an iteration that failed (with the flag still false) it
\* starts the next iteration, unless a shutdown is requested meanwhile.
C15_FailureKeepsLooping ==
    /\ [](pc = "ended" => ending)
    /\ \A k \in 1..(MaxLoops - 1) :
          [](FailedIteration(k) => <>(StartedIteration(k + 1) \/ ending))

\* the second iteration starts after an exception in the first
C15_Witness ==
    /\ StartedIteration(2)
    /\ failure = "exception"
    /\ ~ending


\* C16: trading_state.ending starts false, and no step of the loop or of
\* a route makes it false once it is true.
C16_EndingMonotonic ==
    /\ ~ending
    /\ [][ending => ending']_vars

\* the flag set by /end and seen by the loop, which has left its while
\* statement
C16_Witness ==
    /\ ending
    /\ pc = "ended"
    /\ loop_count = 1

\* the steps of an iteration between the while test and the sleep
InCycle == {"load", "fetch", "save", "trim", "evaluate", "evaluating",
            "execute", "status"}

\* the step does not end the process while an iteration is in progress
CycleNotCancelled == pc \in InCycle => pc' # "killed"

\* with the flag set, the while test starts no iteration
NoCycleAfterShutdown == (ending /\ pc = "while") => pc' # "load"

\* C17: a shutdown requested through /end never cancels the iteration in
\* progress: the iteration runs to its sleep, and once the flag is set the
\* while test starts no new iteration.
C17_CycleRunsToSleep ==
    [][CycleNotCancelled /\ NoCycleAfterShutdown]_vars

\* the configuration a row of threshold.csv stands for: active is true
\* for 1 and for True
Meaning(row) ==
    [trade_size          |-> Val(row.trade_size),
     stop_loss           |-> Val(row.stop_loss),
     stop_profit         |-> Val(row.stop_profit),
     rsi_buy_threshold   |-> Val(row.rsi_buy_threshold),
     rsi_sell_threshold  |-> Val(row.rsi_sell_threshold),
     macd_buy_threshold  |-> Val(row.macd_buy_threshold),
     macd_sell_threshold |-> Val(row.macd_sell_threshold),
     position_size_usdt  |-> Val(row.position_size_usdt),
     active              |-> (row.active \in {"1", "True"}),
     loop_interval       |-> Val(row.loop_interval),
     indicator_window    |-> Val(row.indicator_window)]

\* the load at the top of an iteration, with a complete file to read
LoadStep == pc = "load" /\ pc' = "fetch" /\ threshold_file # None

\* C18: the thresholds of the loop change only at the load at the top of
\* an iteration, so an iteration evaluates and records with what it
\* loaded and a configuration saved while it runs is not used by it; and
\* the load at the top of the next iteration yields the configuration
\* that was saved.
C18_LatestConfigNextIteration ==
    /\ [][pc # "load" => thresholds' = thresholds]_vars
    /\ [][LoadStep => thresholds' = Meaning(Val(threshold_file))]_vars


\* an evaluation by a /signals handler while the evaluation of the loop
\* is in progress
Overlap == pc = "evaluating" /\ recent_signals # None

\* the ledger is written only by the execute_trade step of the loop, for
\* a signal to execute
LedgerWriter ==
    ledger' # ledger => (pc = "execute" /\ pc' = "status" /\ should_execute)

\* C19: no two evaluations run concurrently, the evaluation of the loop
\* and the evaluations of /signals never overlap, and the ledger is
\* written by the loop only.
C19_NoConcurrentEvaluation ==
    /\ [](~Overlap)
    /\ [][LedgerWriter]_vars

\* C19, amended: evaluations may overlap, and the ledger has one writer,
\* the execute_trade step of the loop; no evaluation and no route
\* changes it.
C19_SingleWriter == [][LedgerWriter]_vars

\* a /signals evaluation during the evaluation of the second iteration,
\* after the first iteration recorded a trade
C19_Witness ==
    /\ Overlap
    /\ loop_count = 2
    /\ Len(ledger) = 2


\* the step leaves the ledger as it is or adds one entry after the
\* entries it had, and only the execute_trade step of the loop adds one
AppendOnlyStep ==
    \/ ledger' = ledger
    \/ /\ pc = "execute"
       /\ pc' = "status"
       /\ Len(ledger') = Len(ledger) + 1
       /\ SubSeq(ledger', 1, Len(ledger)) = ledger

\* the loop holds the result of an evaluation that read the ledger
LedgerRead ==
    /\ pc = "execute"
    /\ "get_current_position_from_orders" \in calls
    /\ ~read_error

\* the position is the one all the entries of the ledger give: the side
\* with more entries, at the price of the last entry
PositionOfFullLedger ==
    LET buys  == BuyCount(ledger)
        sells == SellCount(ledger)
    IN  /\ position[1] = (IF buys > sells THEN Some("LONG")
                          ELSE IF sells > buys THEN Some("SHORT") ELSE None)
        /\ position[2] = (IF buys = sells THEN None
                          ELSE Some(ledger[Len(ledger)].price))

\* C20: the ledger is append-only: no step removes, changes or reorders
\* an entry, only execute_trade called by the loop adds one, and the
\* position an evaluation of the loop works with is recomputed from all
\* the entries of the ledger.
C20_AppendOnlyLedger ==
    /\ [][AppendOnlyStep]_vars
    /\ [](LedgerRead => PositionOfFullLedger)

\* the second iteration has evaluated with no position, recomputed from
\* the stored BUY and the SELL recorded by the first iteration, and has
\* recorded a BUY after them
C20_Witness ==
    /\ pc = "status"
    /\ loop_count = 2
    /\ Len(ledger) = 3
    /\ ledger[1].side = "BUY"
    /\ ledger[2].side = "SELL"
    /\ ledger[3].side = "BUY"
    /\ position[1] = None


-----------------------------------------------------------------------------
(* Indicators called on their own                                          *)

\* the largest of the four periods derived from the window
LargestPeriod(w) ==
    LET periods == get_indicator_periods(w)
    IN  Max({periods.rsi_window, periods.macd_fast, periods.macd_slow,
             periods.signal_window})

\* the history handed to the call is shorter than the largest period
ShortHistory == Len(args.historical_data) < LargestPeriod(args.indicator_window)

\* C21: whenever the history has fewer observations than the largest of
\* the four derived periods, calculate_technical_indicators returns
\* (None, None, None).
C21_ShortHistoryAllAbsent ==
    (pc = "returned" /\ ShortHistory) => result = Some(<<None, None, None>>)

\* a window of 26 with 25 observations, more than the three shorter
\* periods ask for, and a library that would compute a triple
C21_Witness ==
    /\ pc = "returned"
    /\ args.indicator_window = 26
    /\ Len(args.historical_data) = 25
    /\ args.computed[3] # None
    /\ result = Some(<<None, None, None>>)


-----------------------------------------------------------------------------
(* Loading the thresholds                                                  *)

\* the call of load_trading_thresholds
LoadReturns == pc = "call" /\ pc' = "returned"

\* threshold.csv is missing, has no data row, or has a field that does not
\* parse
Malformed ==
    \/ ~args.exists
    \/ threshold_file = None
    \/ ParseError(Val(threshold_file))

\* C22: when threshold.csv is missing, has no data row or has a field that
\* cannot be parsed, load_trading_thresholds returns the defaults for all
\* eleven options.
C22_MalformedGivesDefaults ==
    [][(LoadReturns /\ Malformed) => thresholds' = DEFAULT_THRESHOLDS]_vars

\* a row whose stop_loss is no number and whose other fields differ from
\* the defaults has been loaded as the defaults
C22_Witness ==
    /\ pc = "returned"
    /\ threshold_file # None
    /\ Val(threshold_file).stop_loss = None
    /\ Val(threshold_file).rsi_buy_threshold = Some(75)
    /\ Val(threshold_file).active = "0"
    /\ thresholds = DEFAULT_THRESHOLDS

\* a stored row all of whose fields parse has been loaded
ParsedRow ==
    /\ pc = "returned"
    /\ args.exists
    /\ threshold_file # None
    /\ ~ParseError(Val(threshold_file))

\* the thresholds are the values of the row
StoredValues ==
    /\ \A f \in NumericFields : thresholds[f] = Val(Val(threshold_file)[f])
    /\ thresholds.active = (Val(threshold_file).active = "1")

\* C23: validation warns and never rejects: a configuration that parses
\* is returned with its stored values, in range or not, and the warnings
\* hold the RSI-relation warning exactly when rsi_buy_threshold >=
\* rsi_sell_threshold and the stop-relation warning exactly when
\* stop_loss >= stop_profit.
C23_WarnsNeverRejects ==
    ParsedRow =>
        /\ StoredValues
        /\ RsiRelationWarning \in Val(result)
             <=> thresholds.rsi_buy_threshold >= thresholds.rsi_sell_threshold
        /\ StopRelationWarning \in Val(result)
             <=> thresholds.stop_loss >= thresholds.stop_profit

\* an RSI buy threshold above the sell threshold and above its maximum, a
\* stop loss equal to the stop profit: both warnings, values kept
C23_Witness ==
    /\ ParsedRow
    /\ thresholds.rsi_buy_threshold = 75
    /\ thresholds.rsi_sell_threshold = 70
    /\ thresholds.stop_loss = 25
    /\ thresholds.stop_profit = 25
    /\ {RsiRelationWarning, StopRelationWarning} \subseteq Val(result)
    /\ "rsi_buy_threshold is above maximum" \in Val(result)


-----------------------------------------------------------------------------
(* Persistence failures in the loop                                        *)

\* the step in which save_market_data fails
SaveFails == pc = "save" /\ failure' = "save"

\* the save of the iteration has failed; the failure is remembered up to
\* the load of the next iteration
SaveFailed == failure = "save"

\* where the loop can be after a failed save: asleep, at the while test,
\* out of the loop, or at the top of the next iteration
AfterFailedSave == {"sleep", "while", "ended", "load"}

\* the step in which the append of execute_trade fails
AppendFails == pc = "execute" /\ failure' = "append"

\* C24: when saving the snapshot fails the history is unchanged, the
\* iteration makes no evaluation and appends no ledger entry; when
\* appending the order fails the ledger is left as it was, and no other
\* step of the iteration writes it, so the ledger after the iteration is
\* the ledger before it.
C24_FailureDiscardsDecision ==
    /\ [][SaveFails => (historical_data' = historical_data /\ pc' = "sleep")]_vars
    /\ [](SaveFailed => (signal = None /\ calls = {} /\ pc \in AfterFailedSave))
    /\ [][(SaveFailed /\ SaveFailed') => ledger' = ledger]_vars
    /\ [][AppendFails => ledger' = ledger]_vars
    /\ [][(pc \in InCycle /\ pc # "execute") => ledger' = ledger]_vars

\* a BUY was decided on an empty ledger, its append failed, and the
\* iteration sleeps with the ledger still empty
C24_Witness ==
    /\ pc = "sleep"
    /\ failure = "append"
    /\ should_execute
    /\ signal = Some("BUY_SIGNAL")
    /\ ledger = <<>>


-----------------------------------------------------------------------------
(* Exit rules and classifiers called on their own                          *)

\* both exit conditions of the position of the call hold
BothExitsHold ==
    LET p  == args.current_price
        r  == args.last_trade_price
        th == args.thresholds
    IN  IF args.current_position = "LONG"
        THEN LongStopLoss(p, r, th) /\ LongTakeProfit(p, r, th)
        ELSE ShortStopLoss(p, r, th) /\ ShortTakeProfit(p, r, th)

\* the stop-loss label of the position of the call
StopLossLabel ==
    IF args.current_position = "LONG" THEN "SELL_STOP_LOSS" ELSE "BUY_STOP_LOSS"

\* C25: when both the stop-loss and the take-profit condition of the
\* position hold, zero and negative stop_loss and stop_profit included,
\* check_stop_loss_take_profit returns the stop-loss label, to execute.
C25_StopLossFirst ==
    (pc = "returned" /\ BothExitsHold)
        => result = Some([signal |-> StopLossLabel, execute |-> TRUE])

\* a SHORT position at its reference price with stop_loss and stop_profit
\* of zero: both conditions hold
C25_Witness ==
    /\ pc = "returned"
    /\ args.current_position = "SHORT"
    /\ args.current_price = args.last_trade_price
    /\ args.thresholds.stop_loss = 0
    /\ args.thresholds.stop_profit = 0
    /\ BothExitsHold
    /\ result = Some([signal |-> "BUY_STOP_LOSS", execute |-> TRUE])


\* the previous observation of the call: the one before the last
PreviousPoint == args.historical_data[Len(args.historical_data) - 1]

\* the call has two points to compare: a history of two observations, a
\* previous one with MACD and signal, and a current MACD and signal
Comparable ==
    /\ Len(args.historical_data) >= 2
    /\ PreviousPoint.macd # None
    /\ PreviousPoint.signal_line # None
    /\ args.current_macd # None
    /\ args.current_signal # None

BullishCrossing ==
    /\ Comparable
    /\ Val(PreviousPoint.macd) <= Val(PreviousPoint.signal_line)
    /\ Val(args.current_macd) > Val(args.current_signal)

BearishCrossing ==
    /\ Comparable
    /\ Val(PreviousPoint.macd) >= Val(PreviousPoint.signal_line)
    /\ Val(args.current_macd) < Val(args.current_signal)

\* current MACD - previous MACD
Momentum == Val(args.current_macd) - Val(PreviousPoint.macd)

\* C26: check_macd_crossover reports bullish exactly when previous MACD <=
\* previous signal and current MACD > current signal, bearish exactly when
\* previous MACD >= previous signal and current MACD < current signal,
\* never both; the strength is strong when the momentum is > 0 for a
\* bullish and < 0 for a bearish crossover, weak for another crossover,
\* and absent when there is none, the history has fewer than 2 points or
\* the previous point has no MACD or no signal.
C26_CrossoverRule ==
    pc = "returned" =>
        LET r == Val(result)
        IN  /\ r[1] <=> BullishCrossing
            /\ r[2] <=> BearishCrossing
            /\ ~(r[1] /\ r[2])
            /\ BullishCrossing =>
                  r[3] = IF Momentum > 0 THEN Some("strong") ELSE Some("weak")
            /\ BearishCrossing =>
                  r[3] = IF Momentum < 0 THEN Some("strong") ELSE Some("weak")
            /\ (~BullishCrossing /\ ~BearishCrossing) => r[3] = None

\* the previous MACD on its signal line and the current one above it, with
\* no gain of MACD: a weak bullish crossover
C26_Witness ==
    /\ pc = "returned"
    /\ Comparable
    /\ PreviousPoint.macd = Some(2)
    /\ PreviousPoint.signal_line = Some(2)
    /\ args.current_macd = Some(2)
    /\ args.current_signal = Some(0)
    /\ result = Some(<<TRUE, FALSE, Some("weak")>>)

\* the label the ordered rules give for RSI r and thresholds b, s
RsiRule(r, b, s) ==
    CASE r <= b - 5         -> "extremely_oversold"
      [] r > b - 5 /\ r <= b -> "oversold"
      [] r > b /\ r >= s + 5 -> "extremely_overbought"
      [] r > b /\ r >= s /\ r < s + 5 -> "overbought"
      [] r > b /\ r < s /\ 40 <= r /\ r <= 60 -> "neutral"
      [] r > b /\ r < s /\ r < 40 -> "approaching_oversold"
      [] r > b /\ r < s /\ r > 60 -> "approaching_overbought"

\* C27: for every RSI in 0..100 and any thresholds analyze_rsi_condition
\* returns the one label of the first rule that applies, in the order
\* extremely_oversold, oversold, extremely_overbought, overbought,
\* neutral, approaching_oversold, approaching_overbought.
C27_RsiRuleOrder ==
    pc = "returned" =>
        result = Some(RsiRule(Val(args.rsi_value), args.buy_threshold,
                              args.sell_threshold))

\* an RSI equal to a buy threshold inside the neutral zone is oversold
C27_Witness ==
    /\ pc = "returned"
    /\ args.rsi_value = Some(45)
    /\ args.buy_threshold = 45
    /\ args.sell_threshold = 70
    /\ result = Some("oversold")

\* C28: get_macd_trend_strength returns unknown when MACD or signal is
\* absent; otherwise a bullish label exactly when macd > signal and a
\* bearish one otherwise, strong exactly when the separation is strictly
\* greater than 0.001.
C28_TrendStrength ==
    pc = "returned" =>
        IF args.current_macd = None \/ args.current_signal = None
        THEN result = Some("unknown")
        ELSE LET m  == Val(args.current_macd)
                 sl == Val(args.current_signal)
                 r  == Val(result)
             IN  /\ r \in {"strong_bullish", "weak_bullish",
                           "strong_bearish", "weak_bearish"}
                 /\ r \in {"strong_bullish", "weak_bullish"} <=> m > sl
                 /\ r \in {"strong_bullish", "strong_bearish"}
                      <=> (m - sl > MacdSeparation \/ sl - m > MacdSeparation)

\* a MACD exactly 0.001 above its signal is weak_bullish
C28_Witness ==
    /\ pc = "returned"
    /\ args.current_macd = Some(1)
    /\ args.current_signal = Some(-1)
    /\ result = Some("weak_bullish")


-----------------------------------------------------------------------------
(* Shutdown of the loop                                                    *)

\* the loop has left its while statement and printed 'Trading loop ended'
LoopEnded == pc = "ended"

\* C29: once trading_state.ending is true the trading loop eventually
\* leaves its while statement and reaches 'Trading loop ended', also when
\* the iteration in progress fails, and it starts no further iteration, so
\* that it appends at most the entry of the iteration in progress.
C29_EventuallyEnded ==
    /\ ending ~> LoopEnded
    /\ [][ending => loop_count' = loop_count]_vars

-----------------------------------------------------------------------------
(* Session tokens, under SpecAuth                                          *)

\* the verification that has just returned
Verified(value) ==
    /\ pc = "verify_session"
    /\ result = Some(value)

\* C30: verify_session returns true only for a token create_session
\* returned, that logout has not removed and that is at most
\* SESSION_TIMEOUT old; a token for which it returned false, or that logout
\* removed, is refused by every later verification; and a verification
\* that returns false leaves no session for the token, so an expired
\* session is removed by the verification that finds it expired.
C30_SessionTokens ==
    /\ Verified(TRUE) =>
          /\ args.token \in issued
          /\ args.token \notin DOMAIN revoked
          /\ args.token \in DOMAIN active_sessions
          /\ now - active_sessions[args.token] <= SESSION_TIMEOUT
    /\ Verified(FALSE) =>
          /\ args.token \in DOMAIN revoked
          /\ args.token \notin DOMAIN active_sessions
    /\ DOMAIN revoked \cap DOMAIN active_sessions = {}
    /\ DOMAIN active_sessions \subseteq issued

\* a session that was verified when exactly SESSION_TIMEOUT old is refused
\* one tick later, and removed, while another session is still live
C30_Witness ==
    /\ Verified(FALSE)
    /\ args.token \in issued
    /\ revoked[args.token] = "expired"
    /\ args.token \notin DOMAIN active_sessions
    /\ now = SESSION_TIMEOUT + 1
    /\ active_sessions # <<>>

-----------------------------------------------------------------------------
(* The ledger the loop writes, under Spec.  Both ledgers found at startup  *)
(* are ledgers the loop writes from the empty one.                         *)

\* C31: the number of BUY entries and the number of SELL entries in the
\* ledger never differ by more than one.
C31_LedgerBalanced ==
    /\ BuyCount(ledger) - SellCount(ledger) <= 1
    /\ SellCount(ledger) - BuyCount(ledger) <= 1


\* the ledger holds as many BUY as SELL entries
Flat(orders) == BuyCount(orders) = SellCount(orders)

\* index of the entry that opened the position a ledger holds: the entry
\* after the longest flat prefix that has only unbalanced prefixes after it
OpeningIndex(orders) ==
    CHOOSE i \in 1..Len(orders) :
        /\ Flat(SubSeq(orders, 1, i - 1))
        /\ \A k \in i..Len(orders) : ~Flat(SubSeq(orders, 1, k))

\* C32: whenever the ledger holds an open position, its last entry is the
\* entry that opened the position, so the reference price the exit rules
\* get is the price of the opening trade.
C32_ReferenceIsOpeningPrice ==
    ~Flat(ledger) =>
        /\ OpeningIndex(ledger) = Len(ledger)
        /\ get_current_position_from_orders(ledger, FALSE)[2]
              = Some(ledger[OpeningIndex(ledger)].price)

-----------------------------------------------------------------------------
(* Trading switched off, under SpecOff                                     *)

\* C33: when every configuration written to threshold.csv has trading
\* switched off, no step appends a ledger entry.
C33_InactiveNeverTrades == [][ledger' = ledger]_vars

-----------------------------------------------------------------------------
(* A failed read of the ledger, under SpecEval                             *)

\* C34: an evaluation whose read of the ledger failed returns no entry
\* signal while the ledger holds an open position.
C34_ReadErrorNoEntry ==
    (Returned /\ read_error /\ ~Flat(ledger)) =>
        signal \notin {Some("BUY_SIGNAL"), Some("SELL_SIGNAL")}

-----------------------------------------------------------------------------
(* Save then load, under SpecSave                                          *)

\* the configuration a body of /save-config asks for
Requested(data) == [data EXCEPT !.active = (data.active \in {"1", "true"})]

\* C35: the load that follows a save returns the eleven values that were
\* saved; a body with active false loads with active false.
C35_SaveLoadRoundTrip ==
    pc = "returned" => thresholds = Requested(args.data)

-----------------------------------------------------------------------------
(* The observation a cycle appends to the rolling history, under Spec      *)

\* the loop has saved the snapshot of the cycle and not yet left the cycle
SnapshotSaved == pc \in {"trim", "evaluate", "evaluating", "execute", "status"}

\* C36: the observation appended to the rolling history in a cycle carries
\* the rsi, macd and signal_line of the snapshot evaluated in that cycle,
\* present with the same value or absent alike, also for a value of
\* exactly 0.
C36_HistoryKeepsIndicators ==
    SnapshotSaved =>
        LET saved == historical_data[Len(historical_data)]
        IN  /\ saved.rsi = Val(market_data).rsi
            /\ saved.macd = Val(market_data).macd
            /\ saved.signal_line = Val(market_data).signal_line

-----------------------------------------------------------------------------
(* The previous observation of a crossover: the loop under Spec, /signals *)
(* under SpecSig                                                           *)

\* the loop evaluates the snapshot it has just saved: the snapshot is the
\* last observation of the history, so historical_data[-2] precedes it
LoopPreviousPrecedes ==
    pc \in {"evaluate", "evaluating", "execute"} =>
        /\ historical_data # <<>>
        /\ historical_data[Len(historical_data)]
              = parse_csv_row(Val(market_data))

\* what /signals returns for the record at place k of the history when the
\* crossover is taken against the observation before that record
SignalAt(k, read_fails) ==
    LET r == check_trading_signals_with_thresholds(
                 Some(historical_data[k]),
                 load_trading_thresholds(threshold_file), ledger, read_fails,
                 SubSeq(historical_data, 1, k))
    IN  [price |-> historical_data[k].price, signal |-> r.signal,
         should_execute |-> r.execute]

\* every record of a /signals response was evaluated against the
\* observation before it
SignalsPreviousPrecedes ==
    recent_signals # None =>
        LET n == Len(Val(recent_signals))
            first == Len(historical_data) - n
        IN  \E read_fails \in BOOLEAN :
               \A i \in 1..n :
                  Val(recent_signals)[i] = SignalAt(first + i, read_fails)

\* C37: the previous MACD and signal line of a crossover are those of the
\* observation immediately before the evaluated snapshot, in the loop and
\* for each record evaluated by /signals.
C37_PreviousIsPreceding ==
    /\ LoopPreviousPrecedes
    /\ SignalsPreviousPrecedes

-----------------------------------------------------------------------------
(* Exits without indicators, under SpecEval                                *)

\* the snapshot carries no indicator: the history is too short
NoIndicators ==
    /\ Val(market_data).rsi = None
    /\ Val(market_data).macd = None
    /\ Val(market_data).signal_line = None

\* the pair the evaluator returns for the same price with other indicators
WithIndicators(rsi, macd, signal_line) ==
    LET r == check_trading_signals_with_thresholds(
                 Some(Snapshot(Val(market_data).price, rsi, macd, signal_line)),
                 thresholds, ledger, read_error, historical_data)
    IN  <<Some(r.signal), r.execute>>

\* C38: with active thresholds, an open position with a reference price
\* and a matching stop-loss or take-profit condition, a snapshot without
\* any indicator gets the exit label with execute = TRUE, the same pair as
\* with any indicator values.
C38_ExitWithoutIndicators ==
    (Evaluated /\ PositionOpen /\ position[2] # None /\ NoIndicators
     /\ CurrentExits # {})
        => /\ signal \in {Some(l) : l \in CurrentExits}
           /\ should_execute
           /\ \A rsi \in RsiValues, macd \in MacdValues, sl \in SignalValues :
                 WithIndicators(rsi, macd, sl) = <<signal, should_execute>>

\* a SHORT opened at 100.00 reaches its take-profit bound at 97.50 before
\* any indicator exists
C38_Witness ==
    /\ Evaluated
    /\ NoIndicators
    /\ position = <<Some("SHORT"), Some(10000)>>
    /\ Val(market_data).price = 9750
    /\ thresholds = DEFAULT_THRESHOLDS
    /\ signal = Some("BUY_TAKE_PROFIT")
    /\ should_execute

-----------------------------------------------------------------------------
(* BUY and SELL exclude each other, under SpecEval                         *)

\* the snapshot carries all three indicators
AllIndicators ==
    /\ market_data # None
    /\ Val(market_data).rsi # None
    /\ Val(market_data).macd # None
    /\ Val(market_data).signal_line # None

\* check_buy_conditions and check_sell_conditions on the classifier values
\* of the current snapshot, history and thresholds
BuyConditions ==
    check_buy_conditions(Val(market_data).rsi, Val(market_data).macd,
                         Val(market_data).signal_line, Crossover[1],
                         Crossover[3], Trend, RsiCondition, thresholds)

SellConditions ==
    check_sell_conditions(Val(market_data).rsi, Val(market_data).macd,
                          Val(market_data).signal_line, Crossover[2],
                          Crossover[3], Trend, RsiCondition, thresholds)

\* the label of an entry evaluation that tries SELL before BUY
SellFirst ==
    IF SellConditions THEN "SELL_SIGNAL"
    ELSE IF BuyConditions THEN "BUY_SIGNAL" ELSE "HOLD"

\* C39: for every snapshot, history and thresholds, crossed RSI thresholds
\* included, the BUY and the SELL conditions are never both true and a
\* bullish and a bearish crossover are never both reported, so an entry
\* evaluation returns the label it would return with SELL tried first.
C39_BuySellExclusive ==
    (Returned /\ AllIndicators)
        => /\ ~(BuyConditions /\ SellConditions)
           /\ ~(Crossover[1] /\ Crossover[2])
           /\ EntryEvaluated => signal = Some(SellFirst)

\* crossed thresholds that the RSI and the MACD of the snapshot satisfy on
\* both sides: the BUY conditions hold, the SELL conditions do not
C39_Witness ==
    /\ EntryEvaluated
    /\ AllIndicators
    /\ thresholds.rsi_buy_threshold >= thresholds.rsi_sell_threshold
    /\ Val(Val(market_data).rsi) <= thresholds.rsi_buy_threshold
    /\ Val(Val(market_data).rsi) >= thresholds.rsi_sell_threshold
    /\ Val(Val(market_data).macd) > thresholds.macd_buy_threshold
    /\ Val(Val(market_data).macd) < thresholds.macd_sell_threshold
    /\ BuyConditions
    /\ ~SellConditions
    /\ Result("BUY_SIGNAL", TRUE)

-----------------------------------------------------------------------------
(* Labels and the execute flag, under Spec                                 *)

\* the labels that stand for a trade
TradeLabels == {"BUY_SIGNAL", "SELL_SIGNAL", "BUY_STOP_LOSS",
                "BUY_TAKE_PROFIT", "SELL_STOP_LOSS", "SELL_TAKE_PROFIT"}

\* a returned pair: one of the eight labels, executed exactly when the
\* label stands for a trade
LabelAndFlag(label, execute) ==
    /\ label \in TradeLabels \cup {"NO_SIGNAL", "HOLD"}
    /\ execute <=> label \in TradeLabels

\* C40: the evaluator returns one of the eight labels with execute true
\* exactly for the six trade labels, to the loop and to /signals; so the
\* loop hands no NO_SIGNAL or HOLD to execute_trade and never takes the
\* branch 'signal detected but not executed'.
C40_LabelsAndFlag ==
    /\ pc = "execute" =>
          /\ signal # None
          /\ LabelAndFlag(Val(signal), should_execute)
          /\ should_execute => Val(signal) \notin {"NO_SIGNAL", "HOLD"}
          /\ ~should_execute => Val(signal) \in {"NO_SIGNAL", "HOLD"}
    /\ recent_signals # None =>
          \A i \in DOMAIN Val(recent_signals) :
             LabelAndFlag(Val(recent_signals)[i].signal,
                          Val(recent_signals)[i].should_execute)

\* the loop is about to execute the stop-loss of a LONG opened at 100.00
C40_Witness ==
    /\ pc = "execute"
    /\ ~read_error
    /\ position = <<Some("LONG"), Some(10000)>>
    /\ Val(market_data).price = 9700
    /\ signal = Some("SELL_STOP_LOSS")
    /\ should_execute

====
